---------------------------- MODULE Spec2Model ----------------------------
(***************************************************************************)
(* Guest authorization core of the captive portal: voucher ledger, OTP     *)
(* challenge engine, fixed-window rate limiter, portal-session store and   *)
(* the guest-facing request handlers that tie them to the network          *)
(* controller.                                                             *)
(*                                                                         *)
(* Strings are sequences of one-character strings.  Every request handler  *)
(* is a process whose steps are the handler's accesses to shared state     *)
(* (Redis commands, SQL statements, controller calls); the code between    *)
(* two accesses is local to the request and belongs to the step.           *)
(***************************************************************************)
EXTENDS Integers, Sequences, FiniteSets, TLC

None == "None"

(***************************************************************************)
(* Bounds of the model.                                                    *)
(***************************************************************************)
NumCalls == 3          \* concurrent service-level calls (redeem / verify / limiter)
MaxOps == 7            \* calls one sequential client issues in turn
CallsPerClient == 2    \* calls each of the concurrent clients issues in turn
MaxUses == 2           \* largest max_uses_per_code a batch is created with
MaxTime == 3           \* the clock runs over 0..MaxTime

(***************************************************************************)
(* Characters and strings.                                                 *)
(***************************************************************************)
LowerChars == <<"a", "b", "c", "d", "e", "f">>
UpperChars == <<"A", "B", "C", "D", "E", "F">>
Digits == {"0", "1", "2", "3", "4", "5", "6", "7", "8", "9"}
Whitespace == {" "}

UpperChar(c) ==
    IF \E i \in 1..Len(LowerChars) : LowerChars[i] = c
    THEN UpperChars[CHOOSE i \in 1..Len(LowerChars) : LowerChars[i] = c]
    ELSE c

LowerChar(c) ==
    IF \E i \in 1..Len(UpperChars) : UpperChars[i] = c
    THEN LowerChars[CHOOSE i \in 1..Len(UpperChars) : UpperChars[i] = c]
    ELSE c

\* str.lower()
Lower(s) == [i \in 1..Len(s) |-> LowerChar(s[i])]

\* str.upper()
Upper(s) == [i \in 1..Len(s) |-> UpperChar(s[i])]

RECURSIVE LStrip(_)
LStrip(s) ==
    IF s = <<>> THEN s
    ELSE IF Head(s) \in Whitespace THEN LStrip(Tail(s)) ELSE s

RECURSIVE RStrip(_)
RStrip(s) ==
    IF s = <<>> THEN s
    ELSE IF s[Len(s)] \in Whitespace THEN RStrip(SubSeq(s, 1, Len(s) - 1)) ELSE s

\* str.strip()
Strip(s) == RStrip(LStrip(s))

\* code.strip().upper()
NormalizeCode(code) == Upper(Strip(code))

HexChars == Digits \cup {LowerChars[i] : i \in 1..Len(LowerChars)}
                   \cup {UpperChars[i] : i \in 1..Len(UpperChars)}

MacHexLen == 12

\* re.sub(r"[^0-9a-fA-F]", "", raw)
HexOnly(s) == SelectSeq(s, LAMBDA c : c \in HexChars)

\* ":".join(pairs).upper() over the pairs hex[i : i + 2]
JoinPairsKeepCase(hex) ==
    [i \in 1..(Len(hex) + (Len(hex) \div 2) - 1) |->
        IF i % 3 = 0 THEN ":" ELSE hex[i - (i \div 3)]]
JoinPairs(hex) ==
    [i \in 1..(Len(hex) + (Len(hex) \div 2) - 1) |->
        IF i % 3 = 0 THEN ":" ELSE UpperChar(hex[i - (i \div 3)])]

\* normalize_mac: the canonical form; MacInvalid stands for the raised ValueError
MacInvalid == <<>>
normalize_mac(raw) ==
    LET hex == HexOnly(raw)
    IN  IF Len(hex) # MacHexLen THEN MacInvalid ELSE JoinPairs(hex)


(***************************************************************************)
(* Optional values: <<>> is Python's None, <<x>> is a present value.       *)
(***************************************************************************)
Absent == <<>>
Some(x) == <<x>>
IsSome(o) == Len(o) = 1
The(o) == o[1]

(***************************************************************************)
(* The fixed population of the deployment under study.                     *)
(***************************************************************************)
Sites == {"S1", "S2"}
BatchIds == {"B1", "B2"}
VoucherIds == {"V1", "V2"}
BatchSite == [b \in BatchIds |-> IF b = "B1" THEN "S1" ELSE "S2"]
VoucherBatchOf == [v \in VoucherIds |-> IF v = "V1" THEN "B1" ELSE "B2"]
VoucherCode == [v \in VoucherIds |-> IF v = "V1" THEN <<"A", "B", "1">> ELSE <<"C", "D", "2">>]

\* raw voucher codes a guest may submit
CodeLower == <<"a", "b", "1">>
CodePadded == <<" ", "A", "B", "1", " ">>
CodeOther == <<"C", "D", "2">>
\* (site, code) pairs of the redeem calls: V1 at its site in two spellings, V2 at
\* the wrong and at the right site
RedeemInputs == << <<"S1", CodeLower>>, <<"S1", CodePadded>>, <<"S1", CodeOther>>,
                   <<"S2", CodeOther>> >>

\* Assignments of inputs to the calls 1..n.  The calls are interchangeable, so the
\* assignments are taken up to renaming of the calls (non-decreasing in the index).
InputChoices(n, k) ==
    { f \in [1..n -> 1..k] : \A i, j \in 1..n : i < j => f[i] <= f[j] }

\* raw device addresses
MacA == <<"a","a","-","b","b","-","c","c","-","d","d","-","e","e","-","f","f">>
MacACanon == <<"A","A",":","B","B",":","C","C",":","D","D",":","E","E",":","F","F">>
MacB == <<"0","0","1","1","2","2","3","3","4","4","5","5">>
MacBad == <<"a","a",":","b","b">>

VARIABLES
    now,          \* wall clock, seconds
    batches,      \* voucher_batches rows
    vouchers,     \* vouchers rows
    initUses,     \* uses of each voucher when the run began (history)
    redemptions,  \* voucher_redemptions rows
    rowLock,      \* FOR UPDATE row locks: row -> holding request, 0 when free
    sessions,     \* portal_sessions rows
    authEvents,   \* auth_events rows
    identities,   \* guest_identities rows
    oidcSettings, \* site_oidc_settings rows joined with their provider, per site
    psCache,      \* Redis ps:<site>:<mac> entries
    otpStore,     \* Redis otp:<site>:<mac>:<email-hash> entries
    rlStore,      \* Redis rl:<scope>:<window> counters
    oidcStore,    \* Redis oidc:<session> entries
    settings,     \* app.settings values the handlers read
    unifiLog,     \* requests the network controller has served (history)
    hist,         \* what the callers have observed so far (history)
    req           \* the requests / service calls in flight

dbVars == <<batches, vouchers, initUses, redemptions, rowLock, sessions, authEvents, identities,
            oidcSettings>>
redisVars == <<psCache, otpStore, rlStore, oidcStore>>
auxVars == <<settings, unifiLog, hist>>
vars == <<now, dbVars, redisVars, auxVars, req>>

(***************************************************************************)
(* A request: its inputs, its program counter and its local variables.     *)
(***************************************************************************)
Blank ==
    [ kind |-> "none", pc |-> "done", result |-> "",
      \* inputs
      site |-> "S1", psid |-> 0, code |-> <<>>, mac |-> <<>>, email |-> <<>>,
      ip |-> "ip0", scope |-> <<>>, limit |-> 0, wsec |-> 1, status |-> "",
      \* locals
      ncode |-> <<>>, nmac |-> <<>>, again |-> <<>>, tnow |-> 0, vrow |-> None, vuses |-> 0,
      window |-> 0, count |-> 0, stage |-> "none", inWindow |-> FALSE,
      chal |-> Absent, ps |-> Absent, cached |-> Absent, ident |-> Absent,
      unifiId |-> Absent, reason |-> Absent,
      \* OIDC callback: query parameters, stored start state, ID-token claims
      state |-> Absent, error |-> Absent, stored |-> Absent, claims |-> Absent,
      \* what exchange_code_for_claims may return or raise for this callback
      idp |-> {},
      txn |-> FALSE,
      \* find_client_by_mac: the controller's answers, the loop variable and arguments,
      \* the locate calls made, the delays slept and the client returned
      script |-> <<>>, attempt |-> 0, attempts |-> 0, backoff |-> 0,
      located |-> 0, slept |-> <<>>, found |-> Absent, post |-> Absent,
      \* orig_url of the PortalSession row and success_url of the Site row the request
      \* loads; no guest handler writes either
      orig_url |-> Absent, success_url |-> Absent,
      \* history of the request: limiter stages passed, <<stage, count, limit>> of
      \* each INCR, the sensitive actions entered and the writes made
      passed |-> {}, seen |-> {}, ran |-> {}, wrote |-> {},
      \* a client that issues several service calls in turn
      calls |-> 0, budget |-> 0, allow |-> {}, emails |-> {} ]

Reqs == DOMAIN req
Running(r) == req[r].pc # "done"
AllDone == \A r \in Reqs : ~Running(r)

Finish(r, res) == [req EXCEPT ![r].pc = "done", ![r].result = res]

(***************************************************************************)
(* Voucher ledger: redeem_voucher.                                         *)
(***************************************************************************)
\* rows of SELECT Voucher, VoucherBatch ... WHERE code = :code AND site_id = :site
MatchingVouchers(ncode, site) ==
    { v \in VoucherIds : /\ vouchers[v].code = ncode
                         /\ batches[vouchers[v].batch_id].site_id = site }

\* the rows a FOR UPDATE over the join locks for voucher v
LockedRows(v) == {v, vouchers[v].batch_id}

\* .with_for_update(): the statement returns once no other transaction holds the rows
CanLockNoWait(r, v) == TRUE
CanLock(r, v) == \A x \in LockedRows(v) : rowLock[x] = 0

\* the first failing check of the loaded (voucher, batch), or "OK"
RedeemOutcomeNoExhaust(disabled, expires_at, uses, max_uses, tnow) ==
    IF disabled THEN "VOUCHER_DISABLED"
    ELSE IF IsSome(expires_at) /\ The(expires_at) <= tnow THEN "VOUCHER_EXPIRED"
    ELSE IF uses > max_uses THEN "VOUCHER_EXHAUSTED"
    ELSE "OK"
RedeemOutcome(disabled, expires_at, uses, max_uses, tnow) ==
    IF disabled THEN "VOUCHER_DISABLED"
    ELSE IF IsSome(expires_at) /\ The(expires_at) <= tnow THEN "VOUCHER_EXPIRED"
    ELSE IF uses >= max_uses THEN "VOUCHER_EXHAUSTED"
    ELSE "OK"

\* the endpoints, as opposed to direct calls of a service function
HandlerKinds == {"voucher_auth", "otp_start", "otp_verify", "oidc_callback"}

\* history an endpoint request keeps: the sensitive actions it entered and what it
\* has written, as <<what, status, device address>>
Ran(q, what) == IF q.kind \in HandlerKinds THEN [q EXCEPT !.ran = @ \cup {what}] ELSE q
WroteStatus(q, what, status, mac) ==
    IF q.kind \in HandlerKinds THEN [q EXCEPT !.wrote = @ \cup {<<what, status, mac>>}] ELSE q
Wrote(q, what) == WroteStatus(q, what, "", <<>>)

\* where a request goes once redeem_voucher has returned or raised: voucher_auth
\* lines 166-181 go on to the controller, or to FAILED with the error as reason
AfterRedeem(r, res) ==
    IF req[r].kind = "redeem" THEN Finish(r, res)
    ELSE [req EXCEPT ![r].pc = IF res = "OK" THEN "au_unifi" ELSE "ss_get",
                     ![r].status = IF res = "OK" THEN "" ELSE "FAILED",
                     ![r].result = IF res = "OK" THEN "" ELSE "VOUCHER_INVALID",
                     ![r].reason = IF res = "OK" THEN Absent ELSE Some(res),
                     ![r].txn = FALSE]

\* lines 26-30: normalise the inputs, read the clock, open the transaction
RvEnter(r) ==
    /\ req[r].pc = "rv_enter"
    /\ LET nmac == normalize_mac(req[r].mac)
       IN  IF nmac = MacInvalid
           THEN req' = Finish(r, "ValueError")
           ELSE req' = [req EXCEPT ![r] = Ran(@, "redeem_voucher"),
                                   ![r].pc = "rv_select",
                                   ![r].ncode = NormalizeCode(req[r].code),
                                   ![r].nmac = nmac,
                                   ![r].tnow = now]
    /\ UNCHANGED <<now, dbVars, redisVars, auxVars>>

\* lines 31-39: SELECT ... FOR UPDATE; no row raises VOUCHER_NOT_FOUND
RvSelect(r) ==
    /\ req[r].pc = "rv_select"
    /\ LET m == MatchingVouchers(req[r].ncode, req[r].site)
       IN  IF m = {}
           THEN /\ req' = AfterRedeem(r, "VOUCHER_NOT_FOUND")
                /\ UNCHANGED rowLock
           ELSE \E v \in m :
                /\ CanLock(r, v)
                /\ rowLock' = [x \in DOMAIN rowLock |->
                                  IF x \in LockedRows(v) THEN r ELSE rowLock[x]]
                /\ req' = [req EXCEPT ![r].pc = "rv_check", ![r].vrow = v,
                                      ![r].vuses = vouchers[v].uses]
    /\ UNCHANGED <<now, batches, vouchers, initUses, redemptions, sessions, authEvents,
                   identities, oidcSettings, redisVars, auxVars>>

\* line 52: voucher.uses += 1
IncrementedNot(uses) == uses
Incremented(uses) == uses + 1

\* lines 40-63: the checks, then uses += 1 and the redemption row, then COMMIT;
\* a raise inside the with-block rolls back.  Either way the row locks go.
RvCheck(r) ==
    /\ req[r].pc = "rv_check"
    /\ LET v == req[r].vrow
           b == batches[vouchers[v].batch_id]
           res == RedeemOutcome(vouchers[v].disabled, b.expires_at, req[r].vuses,
                                b.max_uses_per_code, req[r].tnow)
       IN  /\ rowLock' = [x \in DOMAIN rowLock |-> IF rowLock[x] = r THEN 0 ELSE rowLock[x]]
           /\ req' = [AfterRedeem(r, res) EXCEPT
                         ![r] = IF res = "OK" THEN Wrote(@, "voucher_use") ELSE @]
           /\ IF res = "OK"
              THEN /\ vouchers' = [vouchers EXCEPT ![v].uses = Incremented(req[r].vuses)]
                   /\ redemptions' = redemptions \cup
                          {[ id |-> r, site_id |-> req[r].site, voucher_id |-> v,
                             portal_session_id |-> req[r].psid, client_mac |-> req[r].nmac ]}
              ELSE UNCHANGED <<vouchers, redemptions>>
    /\ UNCHANGED <<now, batches, initUses, sessions, authEvents, identities, oidcSettings, redisVars,
                   auxVars>>

\* line 30 on a session that already ran a statement: Session.begin() finds the
\* transaction the earlier SELECTs began and, depending on the library version,
\* raises InvalidRequestError; the request then ends in an unhandled error
RvBeginRaises(r) ==
    /\ req[r].pc = "rv_enter"
    /\ req[r].txn
    /\ normalize_mac(req[r].mac) # MacInvalid
    /\ req' = Finish(r, "InvalidRequestError")
    /\ UNCHANGED <<now, dbVars, redisVars, auxVars>>

(***************************************************************************)
(* Redis: keys with a time to live.  exp = NoExpiry marks a key without    *)
(* one; a key whose expiry has passed is gone for every command.           *)
(***************************************************************************)
NoExpiry == -1
RLive(store, k) ==
    k \in DOMAIN store /\ (store[k].exp = NoExpiry \/ store[k].exp > now)
RGet(store, k) == IF RLive(store, k) THEN Some(store[k].val) ELSE Absent
RSetex(store, k, ttl, v) ==
    [x \in DOMAIN store \cup {k} |->
        IF x = k THEN [val |-> v, exp |-> now + ttl] ELSE store[x]]
RDeleteNothing(store, k) == store
RDelete(store, k) == [x \in DOMAIN store \ {k} |-> store[x]]

\* INCR: an absent key counts from zero and gets no expiry
RIncr(store, k) ==
    [x \in DOMAIN store \cup {k} |->
        IF x = k
        THEN IF RLive(store, k) THEN [store[k] EXCEPT !.val = @ + 1]
             ELSE [val |-> 1, exp |-> NoExpiry]
        ELSE store[x]]
\* EXPIRE: no effect on an absent key
RExpire(store, k, ttl) ==
    IF RLive(store, k) THEN [store EXCEPT ![k].exp = now + ttl] ELSE store

(***************************************************************************)
(* Rate limiter: enforce_rate_limit.                                       *)
(***************************************************************************)
limit_key_ip(ip, route) == <<"ip", route, ip>>
\* MacInvalid when normalize_mac raises
limit_key_mac(site, mac, route) ==
    LET nmac == normalize_mac(mac)
    IN  IF nmac = MacInvalid THEN MacInvalid ELSE <<"mac", route, site, nmac>>

\* int(time.time() // window_seconds)
WindowOf(t, window_seconds) == t \div window_seconds
\* f"rl:{scope_key}:{window}"
RlKey(scope_key, window) == <<"rl", scope_key, window>>

\* count > limit
RateExceededLoose(count, limit) == count > limit + 1
RateExceeded(count, limit) == count > limit

\* the time to live the first increment gives the counter
RlTtlShort(window_seconds) == window_seconds - 1
RlTtl(window_seconds) == window_seconds + 1

IpInputs == {"ip0", "ip1"}
RlScopes == {limit_key_ip(ip, "voucher") : ip \in IpInputs}
RlKeySet == {RlKey(sc, w) : sc \in RlScopes, w \in 0..MaxTime}

\* the route name the guest endpoints put into their limiter keys
RouteOf(kind) ==
    CASE kind = "voucher_auth" -> "voucher"
      [] kind = "otp_start" -> "otp_start"
      [] kind = "otp_verify" -> "otp_verify"

\* limit= and window_seconds= of the endpoint's two enforce_rate_limit calls
LimitOf(cfg, kind, stage) ==
    CASE kind = "voucher_auth" /\ stage = "ip" -> cfg.VOUCHER_RATE_LIMIT_PER_IP
      [] kind = "voucher_auth" /\ stage = "mac" -> cfg.VOUCHER_RATE_LIMIT_PER_MAC
      [] kind = "otp_start" /\ stage = "ip" -> cfg.OTP_RATE_LIMIT_PER_IP
      [] kind = "otp_start" /\ stage = "mac" -> cfg.OTP_RATE_LIMIT_PER_MAC
      [] kind = "otp_verify" /\ stage = "ip" -> cfg.OTP_VERIFY_RATE_LIMIT_PER_IP
      [] kind = "otp_verify" /\ stage = "mac" -> cfg.OTP_VERIFY_RATE_LIMIT_PER_MAC
WindowSecondsOf(cfg, kind) ==
    IF kind = "voucher_auth" THEN cfg.VOUCHER_RATE_LIMIT_WINDOW_SECONDS
    ELSE cfg.OTP_RATE_LIMIT_WINDOW_SECONDS

\* scope_key= of the two calls; MacInvalid when normalize_mac raises
ScopeOf(q, stage) ==
    IF stage = "ip" THEN limit_key_ip(q.ip, RouteOf(q.kind))
    ELSE limit_key_mac(q.site, q.mac, RouteOf(q.kind))

\* the request q inside the endpoint's enforce_rate_limit call for the stage, its
\* window computed from the clock (line 27) and the INCR to come
LimitStage(q, stage, cfg) ==
    IF ScopeOf(q, stage) = MacInvalid
    THEN [q EXCEPT !.pc = "done", !.result = "ValueError"]
    ELSE [q EXCEPT !.pc = "rl_incr", !.stage = stage,
                   !.scope = ScopeOf(q, stage),
                   !.limit = LimitOf(cfg, q.kind, stage),
                   !.wsec = WindowSecondsOf(cfg, q.kind),
                   !.window = WindowOf(now, WindowSecondsOf(cfg, q.kind))]

\* the sensitive action of the endpoint: redeem_voucher, start_challenge, verify_code
ActionPc(kind) ==
    CASE kind = "voucher_auth" -> "rv_enter"
      [] kind = "otp_start" -> "sc_setex"
      [] kind = "otp_verify" -> "vc_get"

\* where a request goes once enforce_rate_limit has returned or raised: the raised
\* HTTPException(429) ends an endpoint; after the IP-scoped call comes the
\* device-scoped one, after that the sensitive action
AfterLimitIgnored(r, exceeded) ==
    IF req[r].kind = "limit"
    THEN Finish(r, IF exceeded THEN "RATE_LIMITED" ELSE "OK")
    ELSE LET q == [req[r] EXCEPT !.passed = @ \cup {req[r].stage}]
         IN  [req EXCEPT ![r] = IF q.stage = "ip" THEN LimitStage(q, "mac", settings)
                                ELSE [q EXCEPT !.pc = ActionPc(q.kind)]]
AfterLimit(r, exceeded) ==
    IF req[r].kind = "limit"
    THEN Finish(r, IF exceeded THEN "RATE_LIMITED" ELSE "OK")
    ELSE IF exceeded THEN Finish(r, "RATE_LIMITED")
    ELSE LET q == [req[r] EXCEPT !.passed = @ \cup {req[r].stage}]
         IN  [req EXCEPT ![r] = IF q.stage = "ip" THEN LimitStage(q, "mac", settings)
                                ELSE [q EXCEPT !.pc = ActionPc(q.kind)]]

HistAfterLimit(r, exceeded) ==
    IF req[r].kind # "limit" THEN hist
    ELSE LET k == RlKey(req[r].scope, req[r].window)
         IN  [hist EXCEPT
                !.rlPass[k] = IF ~exceeded /\ req[r].inWindow THEN @ + 1 ELSE @]

\* line 27: the window of the current time
RlWindow(r) ==
    /\ req[r].pc = "rl_window"
    /\ req' = [req EXCEPT ![r].pc = "rl_incr",
                          ![r].window = WindowOf(now, req[r].wsec)]
    /\ UNCHANGED <<now, dbVars, redisVars, auxVars>>

\* lines 28-36: INCR, then the decision unless the count is 1
RlIncr(r) ==
    /\ req[r].pc = "rl_incr"
    /\ LET k == RlKey(req[r].scope, req[r].window)
           store == RIncr(rlStore, k)
           count == store[k].val
           me == [req EXCEPT ![r].count = count,
                             ![r].seen = @ \cup {<<req[r].stage, count, req[r].limit>>},
                             ![r].inWindow = (WindowOf(now, req[r].wsec) = req[r].window)]
       IN  /\ rlStore' = store
           /\ IF count = 1
              THEN /\ req' = [me EXCEPT ![r].pc = "rl_expire"]
                   /\ hist' = hist
              ELSE /\ req' = [me EXCEPT
                                ![r] = AfterLimit(r, RateExceeded(count, req[r].limit))[r],
                                ![r].count = count,
                                ![r].seen = me[r].seen,
                                ![r].inWindow = me[r].inWindow]
                   /\ hist' = HistAfterLimit(r, RateExceeded(count, req[r].limit))
    /\ UNCHANGED <<now, dbVars, psCache, otpStore, oidcStore, settings, unifiLog>>

\* lines 30-36: EXPIRE after the first increment, then the decision
RlExpire(r) ==
    /\ req[r].pc = "rl_expire"
    /\ rlStore' = RExpire(rlStore, RlKey(req[r].scope, req[r].window), RlTtl(req[r].wsec))
    /\ req' = AfterLimit(r, RateExceeded(req[r].count, req[r].limit))
    /\ hist' = HistAfterLimit(r, RateExceeded(req[r].count, req[r].limit))
    /\ UNCHANGED <<now, dbVars, psCache, otpStore, oidcStore, settings, unifiLog>>

EnforceRateLimit(r) == RlWindow(r) \/ RlIncr(r) \/ RlExpire(r)

\* keys whose time to live has run out by time t are gone
Unexpired(store, t) ==
    [x \in {k \in DOMAIN store : store[k].exp = NoExpiry \/ store[k].exp > t} |-> store[x]]

\* the clock
Tick ==
    /\ now < MaxTime
    /\ now' = now + 1
    /\ psCache' = Unexpired(psCache, now + 1)
    /\ otpStore' = Unexpired(otpStore, now + 1)
    /\ rlStore' = Unexpired(rlStore, now + 1)
    /\ oidcStore' = Unexpired(oidcStore, now + 1)
    /\ UNCHANGED <<dbVars, auxVars, req>>

(***************************************************************************)
(* One-time-passcode challenge engine.                                     *)
(***************************************************************************)
DigitSeq == <<"0", "1", "2", "3", "4", "5", "6", "7", "8", "9">>

RECURSIVE DigitStr(_)
DigitStr(n) ==
    IF n < 10 THEN <<DigitSeq[n + 1]>>
    ELSE DigitStr(n \div 10) \o <<DigitSeq[(n % 10) + 1]>>

RECURSIVE ZeroPad(_, _)
ZeroPad(s, width) == IF Len(s) >= width THEN s ELSE ZeroPad(<<"0">> \o s, width)

OtpCodeWidth == 6
\* f"{n:06d}"
Format06d(n) == ZeroPad(DigitStr(n), OtpCodeWidth)

\* values secrets.randbelow(1000000) takes in the model
RandBelowValues == {7, 123456}
OtpCodes == {Format06d(n) : n \in RandBelowValues}

\* hashlib.sha256 and the HMAC are injective on the inputs of the model
Sha256(x) == <<"sha256", x>>
SecretKey == "dev-change-me"
hash_code(code) == <<"hmac", SecretKey, code>>

\* otp_key; MacInvalid when normalize_mac raises
otp_key(site, mac, email) ==
    LET nmac == normalize_mac(mac)
    IN  IF nmac = MacInvalid THEN MacInvalid
        ELSE <<site, nmac, Sha256(Lower(Strip(email)))>>

EmailA == <<"a", "@", "b">>
EmailASpelled == <<" ", "A", "@", "B">>
EmailC == <<"c", "@", "b">>
EmailInputs == {EmailA, EmailASpelled, EmailC}
OtpKeySet == {otp_key("S1", MacA, e) : e \in EmailInputs}

HistInit ==
    [ issued |-> [k \in OtpKeySet |-> Absent],   \* code of the last start on the key
      ok |-> [k \in OtpKeySet |-> 0],            \* successful verifies since that start
      wrong |-> [k \in OtpKeySet |-> 0],         \* completed wrong-code verifies since it
      compared |-> [k \in OtpKeySet |-> 0],      \* wrong codes compared with its hash
      last |-> Absent,                           \* the call that completed last
      rlPass |-> [k \in RlKeySet |-> 0] ]        \* limiter calls let through, per key

\* where a request goes once start_challenge has returned: otp_start hands the code
\* to the mail task and answers
AfterStart(r, code) ==
    IF req[r].kind = "start"
    THEN [req EXCEPT ![r].pc = "idle", ![r].result = "OK", ![r].code = code]
    ELSE [req EXCEPT ![r].pc = "done", ![r].result = "OK", ![r].code = code]

\* where a request goes once verify_code has returned (ok, reason): otp_verify logs
\* a FAIL event, or goes on to the guest identity
AfterVerifyCarryOn(r, res) ==
    IF req[r].kind = "verify"
    THEN [req EXCEPT ![r].pc = "idle", ![r].result = res]
    ELSE [req EXCEPT ![r].pc = "gi_select", ![r].result = "", ![r].reason = Absent]
AfterVerify(r, res) ==
    IF req[r].kind = "verify"
    THEN [req EXCEPT ![r].pc = "idle", ![r].result = res]
    ELSE [req EXCEPT ![r].pc = IF res = "OK" THEN "gi_select" ELSE "ev_log",
                     ![r].result = IF res = "OK" THEN "" ELSE "OTP_INVALID",
                     ![r].reason = IF res = "OK" THEN Absent ELSE Some(res)]

HistAfterVerify(r, res) ==
    LET k == otp_key(req[r].site, req[r].mac, req[r].email)
        wrongCode == ~(IsSome(hist.issued[k]) /\ The(hist.issued[k]) = req[r].code)
    IN  [hist EXCEPT
            !.ok[k] = IF res = "OK" THEN @ + 1 ELSE @,
            !.wrong[k] = IF wrongCode THEN @ + 1 ELSE @,
            !.last = Some([ kind |-> "verify", key |-> k, code |-> req[r].code,
                            result |-> res, issued |-> hist.issued[k],
                            okBefore |-> hist.ok[k], wrongBefore |-> hist.wrong[k] ])]

\* start_challenge: a fresh code, its hash stored with attempts 0 under the key's TTL
StartChallenge(r) ==
    /\ req[r].pc = "sc_setex"
    /\ LET k == otp_key(req[r].site, req[r].mac, req[r].email)
       IN  \E code \in OtpCodes :
             /\ otpStore' = RSetex(otpStore, k, settings.OTP_TTL_SECONDS,
                                   [code_hash |-> hash_code(code), attempts |-> 0,
                                    created_at |-> now])
             /\ req' = [AfterStart(r, code) EXCEPT
                           ![r] = Wrote(Ran(@, "start_challenge"), "otp_challenge")]
             /\ hist' = [hist EXCEPT !.issued[k] = Some(code), !.ok[k] = 0,
                                     !.wrong[k] = 0, !.compared[k] = 0,
                                     !.last = Some([ kind |-> "start", key |-> k,
                                                     code |-> code, result |-> "OK",
                                                     issued |-> Some(code),
                                                     okBefore |-> 0, wrongBefore |-> 0 ])]
    /\ UNCHANGED <<now, dbVars, psCache, rlStore, oidcStore, settings, unifiLog>>

\* hmac.compare_digest(expected, provided)
CompareDigestAlways(expected, provided) == TRUE
CompareDigest(expected, provided) == expected = provided

\* attempts >= OTP_MAX_ATTEMPTS, before and after the increment
AttemptsSpentNever(attempts) == FALSE
AttemptsSpent(attempts) == attempts >= settings.OTP_MAX_ATTEMPTS

\* the attempt counter a mismatch stores
NextAttemptsSame(attempts) == attempts
NextAttempts(attempts) == attempts + 1

\* verify_code lines 75-90: GET the challenge, then decide locally what to do
VcGet(r) ==
    /\ req[r].pc = "vc_get"
    /\ LET k == otp_key(req[r].site, req[r].mac, req[r].email)
           chal == RGet(otpStore, k)
       IN  IF ~IsSome(chal)
           THEN /\ req' = [AfterVerify(r, "OTP_EXPIRED") EXCEPT ![r] = Ran(@, "verify_code")]
                /\ hist' = IF req[r].kind = "verify"
                           THEN HistAfterVerify(r, "OTP_EXPIRED") ELSE hist
           ELSE IF AttemptsSpent(The(chal).attempts)
           THEN /\ req' = [req EXCEPT ![r] = Ran(@, "verify_code"),
                                      ![r].pc = "vc_del_locked", ![r].chal = chal]
                /\ hist' = hist
           ELSE IF ~CompareDigest(The(chal).code_hash, hash_code(req[r].code))
           THEN /\ req' = [req EXCEPT ![r] = Ran(@, "verify_code"),
                                      ![r].pc = "vc_setex", ![r].chal = chal]
                /\ hist' = [hist EXCEPT !.compared[k] = @ + 1]
           ELSE /\ req' = [req EXCEPT ![r] = Ran(@, "verify_code"),
                                      ![r].pc = "vc_del_ok", ![r].chal = chal]
                /\ hist' = hist
    /\ UNCHANGED <<now, dbVars, redisVars, settings, unifiLog>>

\* lines 80-82 and 94-96: DELETE, then (False, "OTP_LOCKED")
VcDeleteLocked(r) ==
    /\ req[r].pc = "vc_del_locked"
    /\ otpStore' = RDelete(otpStore, otp_key(req[r].site, req[r].mac, req[r].email))
    /\ req' = [AfterVerify(r, "OTP_LOCKED") EXCEPT ![r] = Wrote(@, "otp_challenge")]
    /\ hist' = IF req[r].kind = "verify" THEN HistAfterVerify(r, "OTP_LOCKED") ELSE hist
    /\ UNCHANGED <<now, dbVars, psCache, rlStore, oidcStore, settings, unifiLog>>

\* lines 86-97: a mismatch stores attempts + 1 under a fresh TTL
VcSetex(r) ==
    /\ req[r].pc = "vc_setex"
    /\ LET k == otp_key(req[r].site, req[r].mac, req[r].email)
           c == The(req[r].chal)
           attempts == NextAttempts(c.attempts)
       IN  /\ otpStore' = RSetex(otpStore, k, settings.OTP_TTL_SECONDS,
                                 [code_hash |-> c.code_hash, attempts |-> attempts,
                                  created_at |-> c.created_at])
           /\ IF AttemptsSpent(attempts)
              THEN /\ req' = [req EXCEPT ![r] = Wrote(@, "otp_challenge"),
                                         ![r].pc = "vc_del_locked"]
                   /\ hist' = hist
              ELSE /\ req' = [AfterVerify(r, "OTP_INVALID") EXCEPT
                                 ![r] = Wrote(@, "otp_challenge")]
                   /\ hist' = IF req[r].kind = "verify"
                              THEN HistAfterVerify(r, "OTP_INVALID") ELSE hist
    /\ UNCHANGED <<now, dbVars, psCache, rlStore, oidcStore, settings, unifiLog>>

\* lines 99-100: a match deletes the challenge and returns (True, None)
VcDeleteOk(r) ==
    /\ req[r].pc = "vc_del_ok"
    /\ otpStore' = RDelete(otpStore, otp_key(req[r].site, req[r].mac, req[r].email))
    /\ req' = [AfterVerify(r, "OK") EXCEPT ![r] = Wrote(@, "otp_challenge")]
    /\ hist' = IF req[r].kind = "verify" THEN HistAfterVerify(r, "OK") ELSE hist
    /\ UNCHANGED <<now, dbVars, psCache, rlStore, oidcStore, settings, unifiLog>>

VerifyCode(r) == VcGet(r) \/ VcDeleteLocked(r) \/ VcSetex(r) \/ VcDeleteOk(r)

(***************************************************************************)
(* Network controller adapter and the authorization step.  A controller    *)
(* response is [transport_error, status_code, clients]; a locate script    *)
(* gives the response of each successive locate call.                      *)
(***************************************************************************)
UnifiAttempts == 5
HttpErrorFrom == 400

ControllerId(mac) == <<"client", mac>>
RespFound(mac) ==
    [transport_error |-> FALSE, status_code |-> 200,
     clients |-> << [id |-> Some(ControllerId(mac)), clientId |-> Absent] >>]
RespFoundAltId(mac) ==
    [transport_error |-> FALSE, status_code |-> 200,
     clients |-> << [id |-> Absent, clientId |-> Some(ControllerId(mac))] >>]
RespFoundNoId == 
    [transport_error |-> FALSE, status_code |-> 200,
     clients |-> << [id |-> Absent, clientId |-> Absent] >>]
RespEmpty == [transport_error |-> FALSE, status_code |-> 200, clients |-> <<>>]
RespHttpError == [transport_error |-> FALSE, status_code |-> 500, clients |-> <<>>]
RespTransportError == [transport_error |-> TRUE, status_code |-> 0, clients |-> <<>>]

\* the first `empties` locate calls find nothing, every later one answers `final`
Script(empties, final) == [n \in 1..UnifiAttempts |-> IF n <= empties THEN RespEmpty ELSE final]
LocateScripts(mac) ==
    {Script(k, f) : k \in {0, 2},
                    f \in {RespFound(mac), RespFoundAltId(mac), RespFoundNoId, RespHttpError}}
    \cup {Script(UnifiAttempts, RespEmpty), Script(1, RespTransportError)}
AuthorizeResponses ==
    { [RespEmpty EXCEPT !.status_code = 200], RespHttpError, RespTransportError }

\* a controller call raises UnifiApiError on a transport failure or a status >= 400
RaisesUnifiApiErrorNever(resp) == FALSE
RaisesUnifiApiError(resp) == resp.transport_error \/ resp.status_code >= HttpErrorFrom

\* find_client_by_mac from the given attempt on: [err, client, calls]
RECURSIVE find_client_by_mac(_, _, _)
find_client_by_mac(script, attempt, attempts) ==
    IF attempt > attempts THEN [err |-> FALSE, client |-> Absent, calls |-> attempts]
    ELSE IF RaisesUnifiApiError(script[attempt])
    THEN [err |-> TRUE, client |-> Absent, calls |-> attempt]
    ELSE IF script[attempt].clients # <<>>
    THEN [err |-> FALSE, client |-> Some(script[attempt].clients[1]), calls |-> attempt]
    ELSE find_client_by_mac(script, attempt + 1, attempts)

\* unifi_client.get("id") or unifi_client.get("clientId")
ClientIdOf(client) == IF IsSome(client.id) THEN client.id ELSE client.clientId

\* _authorize_unifi: (authorized, reason, client_id), and the authorize call it made
authorize_unifi(script, postResp) ==
    LET found == find_client_by_mac(script, 1, UnifiAttempts)
        NoPost(reason) == [authorized |-> FALSE, reason |-> Some(reason),
                           client_id |-> Absent, posted |-> Absent]
    IN  IF found.err THEN NoPost("UNIFI_ERROR")
        ELSE IF ~IsSome(found.client) THEN NoPost("CLIENT_NOT_FOUND")
        ELSE IF ~IsSome(ClientIdOf(The(found.client))) THEN NoPost("CLIENT_ID_MISSING")
        ELSE LET cid == ClientIdOf(The(found.client))
             IN  IF RaisesUnifiApiError(postResp)
                 THEN [authorized |-> FALSE, reason |-> Some("UNIFI_ERROR"),
                       client_id |-> Absent, posted |-> cid]
                 ELSE [authorized |-> TRUE, reason |-> Absent,
                       client_id |-> cid, posted |-> cid]

\* oidc.py has its own _authorize_unifi (lines 262-292), which oidc_callback calls
oidc_authorize_unifiIdOnly(script, postResp) ==
    LET found == find_client_by_mac(script, 1, UnifiAttempts)
        Failed(reason, posted) == [authorized |-> FALSE, reason |-> Some(reason),
                                   client_id |-> Absent, posted |-> posted]
    IN  IF found.err THEN Failed("UNIFI_ERROR", Absent)
        ELSE IF ~IsSome(found.client) THEN Failed("CLIENT_NOT_FOUND", Absent)
        ELSE IF ~IsSome(The(found.client).id) THEN Failed("CLIENT_ID_MISSING", Absent)
        ELSE IF RaisesUnifiApiError(postResp)
        THEN Failed("UNIFI_ERROR", The(found.client).id)
        ELSE [authorized |-> TRUE, reason |-> Absent,
              client_id |-> The(found.client).id, posted |-> The(found.client).id]
oidc_authorize_unifi(script, postResp) ==
    LET found == find_client_by_mac(script, 1, UnifiAttempts)
        Failed(reason, posted) == [authorized |-> FALSE, reason |-> Some(reason),
                                   client_id |-> Absent, posted |-> posted]
    IN  IF found.err THEN Failed("UNIFI_ERROR", Absent)
        ELSE IF ~IsSome(found.client) THEN Failed("CLIENT_NOT_FOUND", Absent)
        ELSE IF ~IsSome(ClientIdOf(The(found.client))) THEN Failed("CLIENT_ID_MISSING", Absent)
        ELSE IF RaisesUnifiApiError(postResp)
        THEN Failed("UNIFI_ERROR", ClientIdOf(The(found.client)))
        ELSE [authorized |-> TRUE, reason |-> Absent,
              client_id |-> ClientIdOf(The(found.client)),
              posted |-> ClientIdOf(The(found.client))]

\* the _authorize_unifi a handler calls: the one of its own module
AuthorizeStep(kind, script, postResp) ==
    IF kind \in {"oidc_callback", "oidc._authorize_unifi"}
    THEN oidc_authorize_unifi(script, postResp)
    ELSE authorize_unifi(script, postResp)

(***************************************************************************)
(* Guest request handlers: the steps they share.                           *)
(***************************************************************************)
\* portal_session_id values a guest may send besides the ids of existing rows
PsidMalformed == 0
PsidUnknown == 99

\* _get_site, then _get_portal_session: the error of the first lookup that fails
LoadOutcome(site, psid) ==
    IF site \notin Sites THEN "NOT_FOUND"
    ELSE IF psid = PsidMalformed THEN "INVALID_SESSION"
    ELSE IF psid \notin DOMAIN sessions \/ sessions[psid].site_id # site THEN "NOT_FOUND"
    ELSE "OK"

\* guest.py lines 139-149, 219-229, 263-273: load the site and the session (which
\* begins the database session's transaction), then call the IP-scoped limiter
GuestLoad(r) ==
    /\ req[r].pc = "g_load"
    /\ LET res == LoadOutcome(req[r].site, req[r].psid)
       IN  IF res # "OK" THEN req' = Finish(r, res)
           ELSE LET row == sessions[req[r].psid]
                    q == [req[r] EXCEPT
                             !.ps = Some([id |-> req[r].psid, site_id |-> row.site_id,
                                          client_mac |-> row.client_mac]),
                             !.mac = row.client_mac,
                             !.txn = TRUE]
                IN  req' = [req EXCEPT ![r] = LimitStage(q, "ip", settings)]
    /\ UNCHANGED <<now, dbVars, redisVars, auxVars>>

\* AuthMethod of the events an endpoint writes
MethodOf(kind) ==
    CASE kind = "voucher_auth" -> "VOUCHER"
      [] kind = "otp_verify" -> "EMAIL_OTP"
      [] kind = "oidc_callback" -> "OIDC"

\* the status a handler passes to set_status after _authorize_unifi
\* (guest.py lines 182-198, 304-321; oidc.py lines 169-194)
StatusOfAuthed(authorized) == IF authorized THEN "AUTHED" ELSE "FAILED"
StatusOf(authorized) == IF authorized THEN "AUTHORIZED" ELSE "FAILED"

\* _authorize_unifi(site, portal_session.client_mac): the locate calls and, if a
\* client id came back, the authorize call; then on to set_status.  The handler reads
\* portal_session.client_mac and the site's controller settings first; the session
\* factory of db.py expires loaded rows at each commit, so after a commit the read
\* runs a SELECT that begins a transaction, and before any commit the transaction
\* of the first lookup is still open: one is open while the controller is called.
AuthorizeUnifi(r) ==
    /\ req[r].pc = "au_unifi"
    /\ \E script \in LocateScripts(req[r].mac), postResp \in AuthorizeResponses :
          LET out == AuthorizeStep(req[r].kind, script, postResp)
          IN  /\ unifiLog' = IF IsSome(out.posted)
                             THEN unifiLog \cup {[ by |-> r, mac |-> req[r].mac,
                                                  client_id |-> The(out.posted),
                                                  response |-> postResp ]}
                             ELSE unifiLog
              /\ req' = [req EXCEPT
                            ![r] = Ran(@, "_authorize_unifi"),
                            ![r].txn = TRUE,
                            ![r].pc = "ss_get",
                            ![r].status = StatusOf(out.authorized),
                            ![r].reason = out.reason,
                            ![r].unifiId = out.client_id,
                            ![r].result = IF out.authorized THEN "OK" ELSE "UNIFI_ERROR"]
    /\ UNCHANGED <<now, dbVars, redisVars, settings, hist>>

(***************************************************************************)
(* Portal-session store: set_status.                                       *)
(***************************************************************************)
PORTAL_SESSION_TTL_SECONDS == 1800

\* f"ps:{site_id}:{client_mac}"
portal_session_key(site, mac) == <<"ps", site, mac>>

\* the durable rows SELECT ... WHERE site_id = :site AND client_mac = :mac returns
SessionRows(site, mac) ==
    { i \in DOMAIN sessions : sessions[i].site_id = site /\ sessions[i].client_mac = mac }

\* lines 155-156: normalise the address and GET the cache entry
SsGet(r) ==
    /\ req[r].pc = "ss_get"
    /\ LET nmac == normalize_mac(req[r].mac)
       IN  IF nmac = MacInvalid THEN req' = Finish(r, "ValueError")
           ELSE LET existing == RGet(psCache, portal_session_key(req[r].site, nmac))
                IN  req' = [req EXCEPT ![r].nmac = nmac,
                                       ![r].cached = existing,
                                       ![r].pc = IF IsSome(existing) THEN "ss_setex"
                                                 ELSE "ss_db"]
    /\ UNCHANGED <<now, dbVars, redisVars, auxVars>>

\* lines 158-166: the entry read, with the new status
UpdatedSameStatus(existing, status) == existing
Updated(existing, status) == [existing EXCEPT !.status = status]

\* lines 157-171: SETEX the entry read, with the new status and a fresh TTL
SsSetex(r) ==
    /\ req[r].pc = "ss_setex"
    /\ psCache' = RSetex(psCache, portal_session_key(req[r].site, req[r].nmac),
                         PORTAL_SESSION_TTL_SECONDS,
                         Updated(The(req[r].cached), req[r].status))
    /\ req' = [req EXCEPT ![r] = WroteStatus([@ EXCEPT !.pc = "ss_db"], "ps_cache",
                                             req[r].status, req[r].nmac)]
    /\ UNCHANGED <<now, dbVars, otpStore, rlStore, oidcStore, auxVars>>

\* where a request goes once set_status has returned: every handler logs the event
\* next; a call of the service alone is over
AfterSetStatusSilent(q) == [q EXCEPT !.pc = "done"]
AfterSetStatus(q) == [q EXCEPT !.pc = IF q.kind \in HandlerKinds THEN "ev_log" ELSE "done"]

\* line 178: portal_session.status = status, whatever the row's status was
AssignedUnlessAuthorized(old, status) == IF old = "AUTHORIZED" THEN old ELSE status
Assigned(old, status) == status

\* lines 173-180: SELECT the row of (site, address) and UPDATE its status;
\* scalar_one_or_none() raises MultipleResultsFound when several rows match
SsDb(r) ==
    /\ req[r].pc = "ss_db"
    /\ LET rows == SessionRows(req[r].site, req[r].nmac)
       IN  IF Cardinality(rows) > 1
           THEN /\ req' = Finish(r, "MultipleResultsFound")
                /\ UNCHANGED sessions
           ELSE IF rows = {}
           THEN /\ req' = [req EXCEPT ![r] = AfterSetStatus(@)]
                /\ UNCHANGED sessions
           ELSE /\ sessions' = [i \in DOMAIN sessions |->
                                   IF i \in rows
                                   THEN [sessions[i] EXCEPT
                                            !.status = Assigned(@, req[r].status)]
                                   ELSE sessions[i]]
                /\ req' = [req EXCEPT ![r] = WroteStatus(AfterSetStatus(@), "ps_row",
                                                         req[r].status, req[r].nmac)]
    /\ UNCHANGED <<now, batches, vouchers, initUses, redemptions, rowLock, authEvents,
                   identities, oidcSettings, redisVars, auxVars>>

SetStatus(r) == SsGet(r) \/ SsSetex(r) \/ SsDb(r)

(***************************************************************************)
(* Audit trail: _log_auth_event.                                           *)
(***************************************************************************)
\* where a request goes once the event is committed: the OIDC callback clears its
\* stored state after a success, every other path answers
AfterLogEvent(q) ==
    IF q.kind = "oidc_callback" /\ q.status = "AUTHORIZED" THEN [q EXCEPT !.pc = "oc_clear"]
    ELSE [q EXCEPT !.pc = "done"]

\* db.add(event); db.commit(): the table after the INSERT of a row
InsertEventReplacing(events, row) ==
    {e \in events : e.portal_session_id # row.portal_session_id} \cup {row}
InsertEvent(events, row) == events \cup {row}

\* INSERT the AuthEvent and COMMIT.  The row's id is <<request, number of the
\* event within the request>>.
LogAuthEvent(r) ==
    /\ req[r].pc = "ev_log"
    /\ authEvents' = InsertEvent(authEvents,
          [ id |-> <<r, Cardinality({e \in authEvents : e.id[1] = r}) + 1>>,
            site_id |-> req[r].site,
            portal_session_id |-> The(req[r].ps).id,
            guest_identity_id |-> req[r].ident,
            method |-> MethodOf(req[r].kind),
            result |-> IF req[r].status = "AUTHORIZED" THEN "SUCCESS" ELSE "FAIL",
            reason |-> req[r].reason,
            unifi_client_id |-> req[r].unifiId ])
    /\ req' = [req EXCEPT ![r] = Wrote(AfterLogEvent(@), "auth_event")]
    /\ UNCHANGED <<now, batches, vouchers, initUses, redemptions, rowLock, sessions,
                   identities, oidcSettings, redisVars, auxVars>>

(***************************************************************************)
(* Guest identities.  Rows are [email, oidc_sub]; the table is unique on   *)
(* (tenant, email) and on (tenant, oidc_sub), nulls apart.                 *)
(***************************************************************************)
IdentitiesWith(field, value) ==
    { i \in DOMAIN identities : identities[i][field] = Some(value) }

\* would a row holding these values, stored at index self (0: a new row), break a
\* unique constraint
IdentityConflict(self, email, sub) ==
    \E i \in DOMAIN identities \ {self} :
        \/ IsSome(email) /\ identities[i].email = email
        \/ IsSome(sub) /\ identities[i].oidc_sub = sub

\* guest.py _upsert_guest_identity lines 431-434: SELECT by (tenant, email)
GiSelect(r) ==
    /\ req[r].pc = "gi_select"
    /\ LET found == IdentitiesWith("email", req[r].email)
       IN  req' = IF found = {} THEN [req EXCEPT ![r].pc = "gi_insert"]
                  ELSE [req EXCEPT ![r].pc = "au_unifi",
                                   ![r].ident = Some(CHOOSE i \in found : TRUE)]
    /\ UNCHANGED <<now, dbVars, redisVars, auxVars>>

\* lines 435-439: INSERT and COMMIT; a row another request has inserted meanwhile
\* makes the INSERT fail with IntegrityError
GiInsert(r) ==
    /\ req[r].pc = "gi_insert"
    /\ IF IdentityConflict(0, Some(req[r].email), Absent)
       THEN /\ req' = Finish(r, "IntegrityError")
            /\ UNCHANGED identities
       ELSE /\ identities' = Append(identities,
                                    [email |-> Some(req[r].email), oidc_sub |-> Absent])
            /\ req' = [req EXCEPT ![r] = Wrote(@, "identity"),
                                  ![r].pc = "au_unifi",
                                  ![r].ident = Some(Len(identities) + 1)]
    /\ UNCHANGED <<now, batches, vouchers, initUses, redemptions, rowLock, sessions,
                   authEvents, oidcSettings, redisVars, auxVars>>

\* oidc.py _upsert_guest_identity lines 328-332: SELECT by (tenant, oidc_sub)
OiSelect(r) ==
    /\ req[r].pc = "oi_select"
    /\ LET found == IdentitiesWith("oidc_sub", The(The(req[r].claims).sub))
       IN  req' = IF found = {} THEN [req EXCEPT ![r].pc = "oi_write", ![r].ident = Absent]
                  ELSE [req EXCEPT ![r].pc = "oi_write",
                                   ![r].ident = Some(CHOOSE i \in found : TRUE)]
    /\ UNCHANGED <<now, dbVars, redisVars, auxVars>>

\* lines 333-350: UPDATE the row found, or INSERT a new one, and COMMIT
OiWrite(r) ==
    /\ req[r].pc = "oi_write"
    /\ LET c == The(req[r].claims)
           self == IF IsSome(req[r].ident) THEN The(req[r].ident) ELSE 0
       IN  IF IdentityConflict(self, c.email, IF self = 0 THEN c.sub ELSE Absent)
           THEN /\ req' = Finish(r, "IntegrityError")
                /\ UNCHANGED identities
           ELSE IF self = 0
           THEN /\ identities' = Append(identities, [email |-> c.email, oidc_sub |-> c.sub])
                /\ req' = [req EXCEPT ![r] = Wrote(@, "identity"),
                                      ![r].pc = "au_unifi",
                                      ![r].ident = Some(Len(identities) + 1)]
           ELSE /\ identities' = [identities EXCEPT ![self].email = c.email]
                /\ req' = [req EXCEPT ![r] = Wrote(@, "identity"), ![r].pc = "au_unifi"]
    /\ UNCHANGED <<now, batches, vouchers, initUses, redemptions, rowLock, sessions,
                   authEvents, oidcSettings, redisVars, auxVars>>

(***************************************************************************)
(* OIDC callback.  A state token "<session id>.<secret>" is the pair       *)
(* <<session id, secret>>; a token without a dot is a one-element tuple.   *)
(***************************************************************************)
StateToken(psid, secret) == <<psid, secret>>
StateMalformed == <<"nodot">>

\* _portal_session_from_state: the session id before the first dot, if it is a UUID
portal_session_from_state(state) ==
    IF Len(state) < 2 \/ state[1] = PsidMalformed THEN Absent ELSE Some(state[1])

\* f"oidc:{portal_session_id}"
oidc_state_key(psid) == <<"oidc", psid>>

\* _email_domain: the lower-cased part after the first "@", "" without one
RECURSIVE AfterAt(_)
AfterAt(email) ==
    IF email = <<>> THEN <<>>
    ELSE IF Head(email) = "@" THEN Tail(email) ELSE AfterAt(Tail(email))
email_domain(email) == Lower(AfterAt(email))

\* _parse_domains over the comma-separated entries of the setting
parse_domainsNone(entries) == {}
parse_domains(entries) ==
    { Lower(Strip(entries[i])) : i \in {j \in 1..Len(entries) : Strip(entries[j]) # <<>>} }

EmailOut == <<"a", "@", "x">>
SubjectA == "sub-a"
\* what exchange_code_for_claims returns or raises in the model
ExchangeOutcomes ==
    { [err |-> Some("OIDC_TOKEN_FAILED"), claims |-> Absent],
      [err |-> Absent, claims |-> Some([sub |-> Some(SubjectA), email |-> Some(EmailASpelled)])],
      [err |-> Absent, claims |-> Some([sub |-> Some(SubjectA), email |-> Some(EmailOut)])],
      [err |-> Absent, claims |-> Some([sub |-> Absent, email |-> Some(EmailA)])] }

\* lines 148-159: the error of the claims the token exchange returned, None if none
ClaimsErrorDomainFirst(claims, allowed_entries) ==
    IF /\ parse_domains(allowed_entries) # {}
       /\ \/ ~IsSome(claims.email)
          \/ email_domain(The(claims.email)) \notin parse_domains(allowed_entries)
    THEN Some("OIDC_DOMAIN_DENIED")
    ELSE IF ~IsSome(claims.sub) THEN Some("OIDC_SUB_MISSING")
    ELSE Absent
ClaimsError(claims, allowed_entries) ==
    IF ~IsSome(claims.sub) THEN Some("OIDC_SUB_MISSING")
    ELSE IF /\ parse_domains(allowed_entries) # {}
            /\ \/ ~IsSome(claims.email)
               \/ email_domain(The(claims.email)) \notin parse_domains(allowed_entries)
    THEN Some("OIDC_DOMAIN_DENIED")
    ELSE Absent

\* lines 104-120: the site, the error parameter, the state and code parameters
OcEnter(r) ==
    /\ req[r].pc = "oc_enter"
    /\ req' =
         IF req[r].site \notin Sites THEN Finish(r, "NOT_FOUND")
         ELSE IF IsSome(req[r].error) THEN Finish(r, "OIDC_PROVIDER_ERROR")
         ELSE IF ~IsSome(req[r].state) \/ req[r].code = <<>>
         THEN Finish(r, "OIDC_STATE_INVALID")
         ELSE IF ~IsSome(portal_session_from_state(The(req[r].state)))
         THEN Finish(r, "OIDC_STATE_INVALID")
         ELSE [req EXCEPT ![r].pc = "oc_state",
                          ![r].psid = The(portal_session_from_state(The(req[r].state))),
                          ![r].txn = TRUE]
    /\ UNCHANGED <<now, dbVars, redisVars, auxVars>>

\* line 124: not stored or stored.state != state
StateRejectedIfAbsent(stored, state) == ~IsSome(stored)
StateRejected(stored, state) == ~IsSome(stored) \/ The(stored).state # state

\* lines 122-125: GET the stored state and compare the state strings
OcState(r) ==
    /\ req[r].pc = "oc_state"
    /\ LET stored == RGet(oidcStore, oidc_state_key(req[r].psid))
       IN  req' = IF StateRejected(stored, The(req[r].state))
                  THEN Finish(r, "OIDC_STATE_INVALID")
                  ELSE [req EXCEPT ![r].pc = "oc_setting", ![r].stored = stored]
    /\ UNCHANGED <<now, dbVars, redisVars, auxVars>>

\* lines 127-131: the site's enabled OIDC setting, its provider, the portal session
OcSetting(r) ==
    /\ req[r].pc = "oc_setting"
    /\ LET setting == oidcSettings[req[r].site]
           res == LoadOutcome(req[r].site, req[r].psid)
       IN  req' =
             IF ~IsSome(setting) \/ ~The(setting).enabled THEN Finish(r, "OIDC_DISABLED")
             ELSE IF The(setting).provider_id # The(req[r].stored).provider_id
             THEN Finish(r, "OIDC_PROVIDER_MISMATCH")
             ELSE IF res # "OK" THEN Finish(r, res)
             ELSE LET row == sessions[req[r].psid]
                  IN  [req EXCEPT ![r].pc = "oc_exchange",
                                  ![r].ps = Some([id |-> req[r].psid, site_id |-> row.site_id,
                                                  client_mac |-> row.client_mac]),
                                  ![r].mac = row.client_mac]
    /\ UNCHANGED <<now, dbVars, redisVars, auxVars>>

\* lines 132-159: the token exchange with the provider, then the checks of the
\* claims; a failure goes to _mark_failed, a success to the identity upsert
OcExchange(r) ==
    /\ req[r].pc = "oc_exchange"
    /\ \E out \in req[r].idp :
          LET err == IF IsSome(out.err) THEN out.err
                     ELSE ClaimsError(The(out.claims),
                                      The(oidcSettings[req[r].site]).allowed_domains)
          IN  req' = IF IsSome(err)
                     THEN [req EXCEPT ![r] = Ran(@, "exchange_code_for_claims"),
                                      ![r].pc = "ss_get", ![r].status = "FAILED",
                                      ![r].claims = out.claims,
                                      ![r].reason = err, ![r].result = The(err)]
                     ELSE [req EXCEPT ![r] = Ran(@, "exchange_code_for_claims"),
                                      ![r].pc = "oi_select", ![r].claims = out.claims]
    /\ UNCHANGED <<now, dbVars, redisVars, auxVars>>

\* lines 205-206: DELETE the stored state, then the success redirect
OcClear(r) ==
    /\ req[r].pc = "oc_clear"
    /\ oidcStore' = RDelete(oidcStore, oidc_state_key(The(req[r].ps).id))
    /\ req' = [req EXCEPT ![r] = Wrote(@, "oidc_state"), ![r].pc = "done"]
    /\ UNCHANGED <<now, dbVars, psCache, otpStore, rlStore, auxVars>>

(***************************************************************************)
(* Initial values shared by the specifications.                            *)
(***************************************************************************)
DefaultSettings ==
    [ OTP_MAX_ATTEMPTS |-> 5, OTP_TTL_SECONDS |-> 600,
      OTP_RATE_LIMIT_WINDOW_SECONDS |-> 60,
      OTP_RATE_LIMIT_PER_IP |-> 5, OTP_RATE_LIMIT_PER_MAC |-> 5,
      OTP_VERIFY_RATE_LIMIT_PER_IP |-> 10, OTP_VERIFY_RATE_LIMIT_PER_MAC |-> 10,
      VOUCHER_RATE_LIMIT_WINDOW_SECONDS |-> 60,
      VOUCHER_RATE_LIMIT_PER_IP |-> 10, VOUCHER_RATE_LIMIT_PER_MAC |-> 10 ]

\* batch B2 / voucher V2 belong to the other site and stay as created
FixedBatch == [site_id |-> "S2", max_uses_per_code |-> 1, expires_at |-> Absent]
FixedVoucher == [batch_id |-> "B2", code |-> VoucherCode["V2"], uses |-> 0, disabled |-> FALSE]

InitLedger ==
    /\ \E mx \in 1..MaxUses, ex \in {Absent, Some(1), Some(2)} :
          batches = [b \in BatchIds |->
                        IF b = "B1"
                        THEN [site_id |-> "S1", max_uses_per_code |-> mx, expires_at |-> ex]
                        ELSE FixedBatch]
    /\ \E u \in 0..MaxUses, d \in BOOLEAN :
          /\ u <= batches["B1"].max_uses_per_code
          /\ vouchers = [v \in VoucherIds |->
                            IF v = "V1"
                            THEN [batch_id |-> "B1", code |-> VoucherCode["V1"],
                                  uses |-> u, disabled |-> d]
                            ELSE FixedVoucher]
    /\ initUses = [v \in VoucherIds |-> vouchers[v].uses]
    /\ redemptions = {}
    /\ rowLock = [x \in VoucherIds \cup BatchIds |-> 0]

\* the ledger as an administrator creates it: one unused single-use voucher per site
InitLedgerFresh ==
    /\ batches = [b \in BatchIds |-> [FixedBatch EXCEPT !.site_id = BatchSite[b]]]
    /\ vouchers = [v \in VoucherIds |->
                      [FixedVoucher EXCEPT !.batch_id = VoucherBatchOf[v],
                                           !.code = VoucherCode[v]]]
    /\ initUses = [v \in VoucherIds |-> 0]
    /\ redemptions = {}
    /\ rowLock = [x \in VoucherIds \cup BatchIds |-> 0]

InitRest ==
    /\ sessions = <<>>
    /\ authEvents = {}
    /\ identities = <<>>
    /\ oidcSettings = [s \in Sites |-> Absent]
    /\ psCache = <<>>
    /\ otpStore = <<>>
    /\ rlStore = <<>>
    /\ oidcStore = <<>>
    /\ unifiLog = {}
    /\ hist = HistInit

(***************************************************************************)
(* SpecRedeem: NumCalls concurrent redeem_voucher calls, each on its own   *)
(* database session, against one ledger.                                   *)
(***************************************************************************)
RedeemCall(site, code, mac) ==
    [Blank EXCEPT !.kind = "redeem", !.pc = "rv_enter", !.site = site,
                  !.code = code, !.mac = mac]

InitRedeem ==
    /\ InitLedger
    /\ InitRest
    /\ now = 1
    /\ settings = DefaultSettings
    /\ \E f \in InputChoices(NumCalls, Len(RedeemInputs)) :
          req = [r \in 1..NumCalls |->
                    RedeemCall(RedeemInputs[f[r]][1], RedeemInputs[f[r]][2], MacA)]

NextRedeem == \E r \in Reqs : RvEnter(r) \/ RvSelect(r) \/ RvCheck(r)

SpecRedeem == InitRedeem /\ [][NextRedeem]_vars

(***************************************************************************)
(* OTP clients: callers of start_challenge / verify_code that issue one    *)
(* call after the other.  SpecOtpSeq has a single client (sequential       *)
(* calls); SpecOtpConc has NumCalls clients verifying one issued challenge *)
(* concurrently.                                                           *)
(***************************************************************************)
OtpClient(budget, allow, emails) ==
    [Blank EXCEPT !.kind = "client", !.pc = "idle", !.site = "S1", !.mac = MacA,
                  !.budget = budget, !.allow = allow, !.emails = emails]

OtpCall(r) ==
    /\ req[r].pc = "idle"
    /\ req[r].calls < req[r].budget
    /\ \E kind \in req[r].allow, email \in req[r].emails, code \in OtpCodes :
          req' = [req EXCEPT ![r].kind = kind,
                             ![r].pc = IF kind = "start" THEN "sc_setex" ELSE "vc_get",
                             ![r].email = email,
                             ![r].code = IF kind = "start" THEN <<>> ELSE code,
                             ![r].chal = Absent,
                             ![r].result = "",
                             ![r].calls = @ + 1]
    /\ UNCHANGED <<now, dbVars, redisVars, auxVars>>

InitOtpSeq ==
    /\ InitLedgerFresh
    /\ InitRest
    /\ now = 1
    /\ settings = DefaultSettings
    /\ req = [r \in {1} |-> OtpClient(MaxOps, {"start", "verify"}, EmailInputs)]

NextOtpSeq == \E r \in Reqs : OtpCall(r) \/ StartChallenge(r) \/ VerifyCode(r)

SpecOtpSeq == InitOtpSeq /\ [][NextOtpSeq]_vars

\* the state a start_challenge on EmailA's key leaves behind
InitOtpConc ==
    /\ InitLedgerFresh
    /\ now = 1 /\ sessions = <<>> /\ authEvents = {} /\ identities = <<>>
    /\ oidcSettings = [s \in Sites |-> Absent]
    /\ psCache = <<>> /\ rlStore = <<>> /\ oidcStore = <<>>
    /\ settings = DefaultSettings /\ unifiLog = {}
    /\ \E code \in OtpCodes :
          LET k == otp_key("S1", MacA, EmailA)
          IN  /\ otpStore = RSetex(<<>>, k, settings.OTP_TTL_SECONDS,
                                   [code_hash |-> hash_code(code), attempts |-> 0,
                                    created_at |-> now])
              /\ hist = [HistInit EXCEPT !.issued[k] = Some(code)]
    /\ req = [r \in 1..NumCalls |-> OtpClient(CallsPerClient, {"verify"}, {EmailA})]

NextOtpConc == \E r \in Reqs : OtpCall(r) \/ VerifyCode(r)

SpecOtpConc == InitOtpConc /\ [][NextOtpConc]_vars

(***************************************************************************)
(* Properties of the voucher ledger, checked under SpecRedeem.             *)
(***************************************************************************)
\* the calls that name voucher V1 at its own site
V1Callers ==
    { r \in Reqs : /\ req[r].kind = "redeem"
                   /\ req[r].site = BatchSite["B1"]
                   /\ NormalizeCode(req[r].code) = VoucherCode["V1"] }

V1FreshSingleUse ==
    /\ initUses["V1"] = 0
    /\ ~vouchers["V1"].disabled
    /\ batches["B1"].max_uses_per_code = 1
    /\ (IsSome(batches["B1"].expires_at) => The(batches["B1"].expires_at) > now)

\* C1: N >= 2 concurrent redeem_voucher calls for one unused, enabled, unexpired
\* single-use voucher: once all have returned, exactly one holds a redemption,
\* every other one failed with VOUCHER_EXHAUSTED, and uses is 1.
C1_ExactlyOneRedeems ==
    ( /\ V1FreshSingleUse
      /\ Cardinality(V1Callers) >= 2
      /\ \A r \in V1Callers : req[r].pc = "done" )
    => /\ Cardinality({r \in V1Callers : req[r].result = "OK"}) = 1
       /\ \A r \in V1Callers : req[r].result \in {"OK", "VOUCHER_EXHAUSTED"}
       /\ vouchers["V1"].uses = 1

C1_Witness ==
    /\ V1FreshSingleUse
    /\ Cardinality(V1Callers) >= 2
    /\ \A r \in V1Callers : req[r].pc = "done"
    /\ \E r \in V1Callers : req[r].result = "VOUCHER_EXHAUSTED"
    /\ \E r \in V1Callers : req[r].result = "OK"

\* C3: in every reachable state every voucher's uses is at most its batch's
\* max_uses_per_code.
C3_UsesWithinLimit ==
    \A v \in VoucherIds : vouchers[v].uses <= batches[vouchers[v].batch_id].max_uses_per_code

C3_Witness ==
    /\ vouchers["V1"].uses = batches["B1"].max_uses_per_code
    /\ vouchers["V1"].uses > initUses["V1"]
    /\ \E r \in Reqs : req[r].pc = "done" /\ req[r].result = "VOUCHER_EXHAUSTED"

(***************************************************************************)
(* Properties of the OTP engine.                                           *)
(***************************************************************************)
ClientsIdle == \A r \in Reqs : req[r].pc = "idle"
LastCall == The(hist.last)
LastVerifyOfIssued ==
    /\ ClientsIdle
    /\ IsSome(hist.last)
    /\ LastCall.kind = "verify"
    /\ IsSome(LastCall.issued)
LastCodeRight == LastCall.code = The(LastCall.issued)

\* C5: sequential calls.  After a start on a key, a verify with the returned code
\* succeeds exactly once: the first one (the challenge not locked out by
\* OTP_MAX_ATTEMPTS wrong codes before it) returns (True, None) and deletes the
\* challenge; every later one, with no new start in between, fails OTP_EXPIRED.
C5_VerifySucceedsOnce ==
    /\ \A k \in OtpKeySet : hist.ok[k] <= 1
    /\ (LastVerifyOfIssued /\ LastCodeRight) =>
          /\ (LastCall.okBefore = 0 /\ LastCall.wrongBefore < settings.OTP_MAX_ATTEMPTS)
                => (LastCall.result = "OK" /\ ~RLive(otpStore, LastCall.key))
          /\ (LastCall.okBefore >= 1) => LastCall.result = "OTP_EXPIRED"

C5_Witness ==
    /\ LastVerifyOfIssued /\ LastCodeRight
    /\ LastCall.okBefore = 1
    /\ LastCall.result = "OTP_EXPIRED"

\* C6: sequential calls on one challenge.  Each of the first OTP_MAX_ATTEMPTS - 1
\* wrong verifies fails OTP_INVALID and leaves the stored counter one higher; the
\* OTP_MAX_ATTEMPTS-th fails OTP_LOCKED and deletes the challenge; a verify with
\* the right code after that fails OTP_EXPIRED.
C6_Lockout ==
    (LastVerifyOfIssued /\ LastCall.okBefore = 0) =>
        /\ (~LastCodeRight /\ LastCall.wrongBefore < settings.OTP_MAX_ATTEMPTS - 1)
              => /\ LastCall.result = "OTP_INVALID"
                 /\ RLive(otpStore, LastCall.key)
                 /\ otpStore[LastCall.key].val.attempts = LastCall.wrongBefore + 1
        /\ (~LastCodeRight /\ LastCall.wrongBefore = settings.OTP_MAX_ATTEMPTS - 1)
              => (LastCall.result = "OTP_LOCKED" /\ ~RLive(otpStore, LastCall.key))
        /\ (LastCodeRight /\ LastCall.wrongBefore >= settings.OTP_MAX_ATTEMPTS)
              => LastCall.result = "OTP_EXPIRED"

C6_Witness ==
    /\ LastVerifyOfIssued /\ LastCodeRight
    /\ LastCall.okBefore = 0
    /\ LastCall.wrongBefore = settings.OTP_MAX_ATTEMPTS
    /\ LastCall.result = "OTP_EXPIRED"

\* C7: concurrent verify_code calls on one key.  One issued code yields at most one
\* successful verification, and once a call has succeeded and every call has
\* returned, no challenge is stored for the key.
C7_OneSuccessPerCode ==
    \A k \in OtpKeySet :
        /\ hist.ok[k] <= 1
        /\ (hist.ok[k] >= 1 /\ ClientsIdle) => ~RLive(otpStore, k)

\* C8: concurrent verify_code calls on one key.  At most OTP_MAX_ATTEMPTS wrong codes
\* are ever compared with the stored hash of one challenge.
C8_BoundedGuesses ==
    \A k \in OtpKeySet : hist.compared[k] <= settings.OTP_MAX_ATTEMPTS

(***************************************************************************)
(* SpecRate: NumCalls clients calling enforce_rate_limit on the IP scopes  *)
(* of one route while the clock runs.  The limit and the window length are *)
(* the configured ones.                                                    *)
(***************************************************************************)
MaxLimit == 2
ModelWindowSeconds == 2

LimitCallOf(ip, cfg) ==
    [Blank EXCEPT !.kind = "limit", !.pc = "rl_window",
                  !.scope = limit_key_ip(ip, "voucher"),
                  !.limit = cfg.VOUCHER_RATE_LIMIT_PER_IP,
                  !.wsec = cfg.VOUCHER_RATE_LIMIT_WINDOW_SECONDS]

IpSeq == <<"ip0", "ip1">>

InitRate ==
    /\ InitLedgerFresh
    /\ InitRest
    /\ now = 0
    /\ \E lim \in 0..MaxLimit :
          settings = [DefaultSettings EXCEPT
                         !.VOUCHER_RATE_LIMIT_PER_IP = lim,
                         !.VOUCHER_RATE_LIMIT_WINDOW_SECONDS = ModelWindowSeconds]
    /\ \E f \in InputChoices(NumCalls, Len(IpSeq)) :
          req = [r \in 1..NumCalls |-> LimitCallOf(IpSeq[f[r]], settings)]

NextRate == Tick \/ \E r \in Reqs : EnforceRateLimit(r)

SpecRate == InitRate /\ [][NextRate]_vars


\* C9: for every scope key and window, of the enforce_rate_limit calls that run
\* within the window a call passes exactly when the count its INCR returned is
\* at most the limit, so at most `limit` calls pass per key and window; with
\* limit = 0 every call, the first included, raises RATE_LIMITED.
C9_FixedWindowLimit ==
    /\ \A r \in Reqs :
          (req[r].kind = "limit" /\ req[r].pc = "done") =>
              /\ (req[r].result = "OK") <=> (req[r].count <= req[r].limit)
              /\ req[r].result \in {"OK", "RATE_LIMITED"}
              /\ (req[r].limit = 0) => (req[r].result = "RATE_LIMITED")
    /\ \A k \in RlKeySet : hist.rlPass[k] <= settings.VOUCHER_RATE_LIMIT_PER_IP

C9_Witness ==
    \E r1, r2 \in Reqs :
        /\ req[r1].kind = "limit" /\ req[r2].kind = "limit"
        /\ req[r1].pc = "done" /\ req[r2].pc = "done"
        /\ req[r1].scope = req[r2].scope /\ req[r1].window = req[r2].window
        /\ req[r1].inWindow /\ req[r2].inWindow
        /\ req[r1].result = "OK" /\ req[r2].result = "RATE_LIMITED"
        /\ hist.rlPass[RlKey(req[r1].scope, req[r1].window)] = req[r1].limit

(***************************************************************************)
(* Guest endpoint specifications.  NumReqs concurrent requests reach the   *)
(* guest endpoints of site S1.  Two devices have been through session      *)
(* creation; the first one's cache entry is live, the second one's has     *)
(* expired.  A challenge has been started for the first device and has     *)
(* seen all wrong guesses but the last allowed one; an OIDC login has been *)
(* started for the second device.                                          *)
(***************************************************************************)
NumReqs == 2
TightLimit == 1        \* a per-IP or per-device limit an operator has set low

MacBCanon == normalize_mac(MacB)
IssuedCode == Format06d(7)
WrongCode == Format06d(123456)
ProviderA == "idp-a"
OIDC_STATE_TTL_SECONDS == 600

GuestRequest(kind, psid, ip) ==
    [Blank EXCEPT !.kind = kind, !.pc = "g_load", !.site = "S1", !.psid = psid, !.ip = ip]

\* requests the guests may send
VoucherA == [GuestRequest("voucher_auth", 1, "ip0") EXCEPT !.code = CodeLower]
VoucherB == [GuestRequest("voucher_auth", 2, "ip1") EXCEPT !.code = CodePadded]
VoucherBSameIp == [VoucherB EXCEPT !.ip = "ip0"]
OtpStartA == [GuestRequest("otp_start", 1, "ip0") EXCEPT !.email = EmailA]
OtpVerifyRight ==
    [GuestRequest("otp_verify", 1, "ip0") EXCEPT !.email = EmailASpelled, !.code = IssuedCode]
OtpVerifyWrong ==
    [GuestRequest("otp_verify", 1, "ip0") EXCEPT !.email = EmailA, !.code = WrongCode]
OidcCallbackB ==
    [GuestRequest("oidc_callback", 0, "ip0") EXCEPT
        !.pc = "oc_enter", !.state = Some(StateToken(2, "secret")), !.code = <<"c">>,
        !.idp = ExchangeOutcomes]

\* NumReqs requests taken in turn from a pattern
Workload(pattern) ==
    [r \in 1..NumReqs |-> pattern[((r - 1) % Len(pattern)) + 1]]

\* app.settings with the per-IP or the per-device limits set low
TightIpSettings ==
    [DefaultSettings EXCEPT !.VOUCHER_RATE_LIMIT_PER_IP = TightLimit,
                            !.OTP_RATE_LIMIT_PER_IP = TightLimit,
                            !.OTP_VERIFY_RATE_LIMIT_PER_IP = TightLimit]
TightMacSettings ==
    [DefaultSettings EXCEPT !.VOUCHER_RATE_LIMIT_PER_MAC = TightLimit,
                            !.OTP_RATE_LIMIT_PER_MAC = TightLimit,
                            !.OTP_VERIFY_RATE_LIMIT_PER_MAC = TightLimit]

\* the rows and cache entries create_or_reuse_session has left behind
SessionRow(mac) == [site_id |-> "S1", client_mac |-> mac, status |-> "STARTED"]
CacheEntry(psid, mac) == [portal_session_id |-> psid, client_mac |-> mac, status |-> "STARTED"]

\* the OIDC setting of site S1 and the state the login of session 2 has stored
SiteOidc == [enabled |-> TRUE, provider_id |-> ProviderA, allowed_domains |-> << <<" ", "B">> >>]
StoredState ==
    [state |-> StateToken(2, "secret"), nonce |-> "n", code_verifier |-> "v",
     provider_id |-> ProviderA]

\* site S1 with its voucher of mx uses, its OIDC setting, the two sessions and the
\* started logins
InitSite(mx, setting) ==
    /\ now = 1
    /\ batches = [b \in BatchIds |->
                     [FixedBatch EXCEPT !.site_id = BatchSite[b],
                                        !.max_uses_per_code = IF b = "B1" THEN mx ELSE 1]]
    /\ vouchers = [v \in VoucherIds |->
                      [FixedVoucher EXCEPT !.batch_id = VoucherBatchOf[v],
                                           !.code = VoucherCode[v]]]
    /\ initUses = [v \in VoucherIds |-> 0]
    /\ redemptions = {}
    /\ rowLock = [x \in VoucherIds \cup BatchIds |-> 0]
    /\ sessions = << SessionRow(MacACanon), SessionRow(MacBCanon) >>
    /\ authEvents = {}
    /\ identities = <<>>
    /\ oidcSettings = [s \in Sites |->
                          IF s = "S1" THEN Some(setting) ELSE Absent]
    /\ psCache = RSetex(<<>>, portal_session_key("S1", MacACanon),
                        PORTAL_SESSION_TTL_SECONDS, CacheEntry(1, MacACanon))
    /\ otpStore = RSetex(<<>>, otp_key("S1", MacA, EmailA), DefaultSettings.OTP_TTL_SECONDS,
                         [code_hash |-> hash_code(IssuedCode),
                          attempts |-> DefaultSettings.OTP_MAX_ATTEMPTS - 1,
                          created_at |-> now])
    /\ rlStore = <<>>
    /\ oidcStore = RSetex(<<>>, oidc_state_key(2), OIDC_STATE_TTL_SECONDS, StoredState)
    /\ unifiLog = {}
    /\ hist = [HistInit EXCEPT !.issued[otp_key("S1", MacA, EmailA)] = Some(IssuedCode)]

InitPortal(mx) == InitSite(mx, SiteOidc)


(***************************************************************************)
(* SpecVoucher: voucher_auth requests from both devices for voucher V1,    *)
(* which has fewer uses than there are requests.                           *)
(***************************************************************************)
InitVoucher ==
    /\ \E mx \in 1..(NumReqs - 1) : InitPortal(mx)
    /\ settings = DefaultSettings
    /\ req = Workload(<<VoucherA, VoucherB>>)

NextVoucher ==
    \E r \in Reqs :
        \/ GuestLoad(r) \/ RlIncr(r) \/ RlExpire(r)
        \/ RvEnter(r) \/ RvBeginRaises(r) \/ RvSelect(r) \/ RvCheck(r)
        \/ AuthorizeUnifi(r) \/ SsGet(r) \/ SsSetex(r) \/ SsDb(r) \/ LogAuthEvent(r)

SpecVoucher == InitVoucher /\ [][NextVoucher]_vars

(***************************************************************************)
(* SpecGuest: the three authorizing endpoints side by side: a voucher and  *)
(* an OTP verification for the first device, an OIDC callback for the      *)
(* second.                                                                 *)
(***************************************************************************)

GuestPatterns ==
    { <<VoucherA, OtpVerifyRight, OidcCallbackB>>,
      <<OidcCallbackB, OtpVerifyWrong>> }

InitGuest ==
    /\ InitPortal(1)
    /\ settings = DefaultSettings
    /\ \E pattern \in GuestPatterns : req = Workload(pattern)

NextGuest ==
    \E r \in Reqs :
        \/ GuestLoad(r) \/ RlIncr(r) \/ RlExpire(r)
        \/ RvEnter(r) \/ RvBeginRaises(r) \/ RvSelect(r) \/ RvCheck(r)
        \/ VcGet(r) \/ VcDeleteLocked(r) \/ VcSetex(r) \/ VcDeleteOk(r)
        \/ GiSelect(r) \/ GiInsert(r)
        \/ OcEnter(r) \/ OcState(r) \/ OcSetting(r) \/ OcExchange(r)
        \/ OiSelect(r) \/ OiWrite(r) \/ OcClear(r)
        \/ AuthorizeUnifi(r) \/ SsGet(r) \/ SsSetex(r) \/ SsDb(r) \/ LogAuthEvent(r)

SpecGuest == InitGuest /\ [][NextGuest]_vars

(***************************************************************************)
(* SpecGate: requests to the rate-limited endpoints from one address or    *)
(* one device, under limits set low.                                       *)
(***************************************************************************)
\* requests of one device to one endpoint, under either low limit; two devices
\* behind one address, under the low per-IP limit
GateScenarios ==
    ( {TightIpSettings, TightMacSettings}
      \X { <<VoucherA>>, <<OtpStartA>>, <<OtpVerifyWrong, OtpVerifyRight>> } )
    \cup { <<TightIpSettings, <<VoucherA, VoucherBSameIp>> >> }

InitGate ==
    /\ InitPortal(1)
    /\ \E sc \in GateScenarios : settings = sc[1] /\ req = Workload(sc[2])

NextGate ==
    \E r \in Reqs :
        \/ GuestLoad(r) \/ RlIncr(r) \/ RlExpire(r)
        \/ RvEnter(r) \/ RvBeginRaises(r) \/ RvSelect(r) \/ RvCheck(r)
        \/ StartChallenge(r)
        \/ VcGet(r) \/ VcDeleteLocked(r) \/ VcSetex(r) \/ VcDeleteOk(r)
        \/ GiSelect(r) \/ GiInsert(r)
        \/ AuthorizeUnifi(r) \/ SsGet(r) \/ SsSetex(r) \/ SsDb(r) \/ LogAuthEvent(r)

SpecGate == InitGate /\ [][NextGate]_vars

(***************************************************************************)
(* Properties of the guest endpoints.                                      *)
(***************************************************************************)
\* the voucher_auth requests that redeemed voucher v, set the session AUTHORIZED
\* and wrote a SUCCESS event of method VOUCHER
Granted(v) ==
    { r \in Reqs : /\ req[r].kind = "voucher_auth"
                   /\ req[r].vrow = v
                   /\ \E w \in req[r].wrote : w[2] = "AUTHORIZED"
                   /\ \E e \in authEvents : /\ e.id[1] = r
                                            /\ e.method = "VOUCHER"
                                            /\ e.result = "SUCCESS" }

\* C2: no double grant.  Under every interleaving of voucher_auth requests from
\* any devices and sessions, the requests that redeem a voucher and end with the
\* session AUTHORIZED and a SUCCESS VOUCHER event number at most the batch's
\* max_uses_per_code.
C2_NoDoubleGrant ==
    \A v \in VoucherIds :
        Cardinality(Granted(v)) <= batches[vouchers[v].batch_id].max_uses_per_code

C2_Witness ==
    /\ AllDone
    /\ Cardinality(Granted("V1")) = batches["B1"].max_uses_per_code
    /\ \E r \in Reqs : /\ req[r].result = "VOUCHER_INVALID"
                       /\ req[r].reason = Some("VOUCHER_EXHAUSTED")

\* the authorize-guest calls of request r that the controller answered with success
AuthorizedCalls(r) ==
    { u \in unifiLog : /\ u.by = r
                       /\ ~u.response.transport_error
                       /\ u.response.status_code < HttpErrorFrom }

\* C4: a request writes status AUTHORIZED (cache entry or durable row) or a SUCCESS
\* AuthEvent only after its own authorize-guest call for the session's device has
\* returned successfully, and the SUCCESS event carries the client id of that call.
C4_AuthorizedOnlyAfterController ==
    /\ \A r \in Reqs : \A w \in req[r].wrote :
          w[2] = "AUTHORIZED" =>
              \E u \in AuthorizedCalls(r) : normalize_mac(u.mac) = w[3]
    /\ \A e \in authEvents :
          e.result = "SUCCESS" =>
              \E u \in AuthorizedCalls(e.id[1]) :
                  /\ normalize_mac(u.mac) = sessions[e.portal_session_id].client_mac
                  /\ e.unifi_client_id = Some(u.client_id)
    /\ \A i \in DOMAIN sessions :
          sessions[i].status = "AUTHORIZED" =>
              \E r \in Reqs : \E u \in AuthorizedCalls(r) :
                  normalize_mac(u.mac) = sessions[i].client_mac
    /\ \A k \in DOMAIN psCache :
          psCache[k].val.status = "AUTHORIZED" =>
              \E r \in Reqs : \E u \in AuthorizedCalls(r) :
                  normalize_mac(u.mac) = psCache[k].val.client_mac

C4_Witness ==
    /\ AllDone
    /\ \E e \in authEvents : /\ e.result = "SUCCESS"
                             /\ e.method = "OIDC"
                             /\ sessions[e.portal_session_id].status = "AUTHORIZED"
                             /\ IsSome(e.unifi_client_id)
    /\ \E e \in authEvents : e.result = "FAIL"

\* a counter of the request came back above its limit
Limited(r) == \E s \in req[r].seen : s[2] > s[3]

\* C10: in the voucher, OTP-start and OTP-verify endpoints the sensitive action
\* runs only after both the IP-scoped and the device-scoped limiter call have
\* passed; a request one of whose counters exceeds its limit ends RATE_LIMITED
\* without entering redeem_voucher / start_challenge / verify_code and without
\* writing a voucher use, an OTP challenge, a session status or an AuthEvent.
C10_LimitedRequestDoesNothing ==
    \A r \in Reqs :
        /\ req[r].ran # {} => req[r].passed = {"ip", "mac"}
        /\ Limited(r) =>
              /\ req[r].ran = {}
              /\ req[r].wrote = {}
              /\ req[r].pc \in {"rl_expire", "done"}
              /\ req[r].pc = "done" => req[r].result = "RATE_LIMITED"
              /\ \A x \in redemptions : x.id # r
              /\ \A e \in authEvents : e.id[1] # r

C10_Witness ==
    \E r1, r2 \in Reqs :
        /\ req[r1].pc = "done" /\ req[r1].result = "RATE_LIMITED"
        /\ "ip" \in req[r1].passed
        /\ \E s \in req[r1].seen : s[1] = "mac" /\ s[2] > s[3]
        /\ req[r2].pc = "done" /\ req[r2].ran # {} /\ req[r2].wrote # {}


(***************************************************************************)
(* Portal-session store: create_or_reuse_session.                          *)
(***************************************************************************)
\* lines 104-113: normalise the address (ValueError on a malformed one) and GET
\* the cache entry of (site, address)
CrGet(r) ==
    /\ req[r].pc = "cr_get"
    /\ LET nmac == normalize_mac(req[r].mac)
       IN  IF nmac = MacInvalid THEN req' = Finish(r, "ValueError")
           ELSE LET existing == RGet(psCache, portal_session_key(req[r].site, nmac))
                IN  req' = [req EXCEPT ![r].nmac = nmac,
                                       ![r].cached = existing,
                                       ![r].pc = IF IsSome(existing) THEN "cr_row"
                                                 ELSE "cr_insert"]
    /\ UNCHANGED <<now, dbVars, redisVars, auxVars>>

\* lines 110-113: SELECT the row the cached handle names; if it exists the cached
\* handle is returned as it is
CrRow(r) ==
    /\ req[r].pc = "cr_row"
    /\ req' = IF The(req[r].cached).portal_session_id \in DOMAIN sessions
              THEN [req EXCEPT ![r].pc = "done", ![r].result = "OK",
                               ![r].ps = req[r].cached]
              ELSE [req EXCEPT ![r].pc = "cr_insert"]
    /\ UNCHANGED <<now, dbVars, redisVars, auxVars>>

\* lines 115-128: INSERT a row with a fresh id and status STARTED, COMMIT
CrInsert(r) ==
    /\ req[r].pc = "cr_insert"
    /\ sessions' = Append(sessions, [site_id |-> req[r].site, client_mac |-> req[r].nmac,
                                     status |-> "STARTED"])
    /\ req' = [req EXCEPT ![r].pc = "cr_setex",
                          ![r].psid = Len(sessions) + 1,
                          ![r].wrote = @ \cup {<<"ps_row", "STARTED", req[r].nmac>>}]
    /\ UNCHANGED <<now, batches, vouchers, initUses, redemptions, rowLock, authEvents,
                   identities, oidcSettings, redisVars, auxVars>>

\* lines 133-144: SETEX the handle of the new row with the 30-minute TTL, return it
CrSetex(r) ==
    /\ req[r].pc = "cr_setex"
    /\ LET data == [portal_session_id |-> req[r].psid, client_mac |-> req[r].nmac,
                    status |-> sessions[req[r].psid].status]
       IN  /\ psCache' = RSetex(psCache, portal_session_key(req[r].site, req[r].nmac),
                                PORTAL_SESSION_TTL_SECONDS, data)
           /\ req' = [req EXCEPT ![r].pc = "done", ![r].result = "OK",
                                 ![r].ps = Some(data),
                                 ![r].wrote = @ \cup {<<"ps_cache", data.status, req[r].nmac>>}]
    /\ UNCHANGED <<now, dbVars, otpStore, rlStore, oidcStore, auxVars>>

CreateOrReuseSession(r) == CrGet(r) \/ CrRow(r) \/ CrInsert(r) \/ CrSetex(r)

\* the cache's 30 minutes go by: every key set before with that TTL or less is gone
ElapseTtl ==
    /\ now <= MaxTime
    /\ now' = now + PORTAL_SESSION_TTL_SECONDS
    /\ psCache' = Unexpired(psCache, now + PORTAL_SESSION_TTL_SECONDS)
    /\ otpStore' = Unexpired(otpStore, now + PORTAL_SESSION_TTL_SECONDS)
    /\ rlStore' = Unexpired(rlStore, now + PORTAL_SESSION_TTL_SECONDS)
    /\ oidcStore' = Unexpired(oidcStore, now + PORTAL_SESSION_TTL_SECONDS)
    /\ UNCHANGED <<dbVars, auxVars, req>>

(***************************************************************************)
(* SpecSession: NumCalls create_or_reuse_session calls at site S1, two of  *)
(* them for one device written in two ways, any of them before or after    *)
(* the cache's 30 minutes.  The cache starts empty or with one handle      *)
(* whose durable row is gone.                                              *)
(***************************************************************************)
CreateCall(mac) ==
    [Blank EXCEPT !.kind = "create_session", !.pc = "cr_get", !.site = "S1", !.mac = mac]

SessionMacs == <<MacA, MacACanon, MacBad, MacB>>

\* a handle left in the cache whose durable row has been deleted since
OrphanCache ==
    RSetex(<<>>, portal_session_key("S1", MacACanon), PORTAL_SESSION_TTL_SECONDS,
           CacheEntry(PsidUnknown, MacACanon))

InitSession ==
    /\ InitLedgerFresh
    /\ sessions = <<>>
    /\ authEvents = {}
    /\ identities = <<>>
    /\ oidcSettings = [s \in Sites |-> Absent]
    /\ now = 1
    /\ psCache \in {<<>>, OrphanCache}
    /\ otpStore = <<>>
    /\ rlStore = <<>>
    /\ oidcStore = <<>>
    /\ unifiLog = {}
    /\ hist = HistInit
    /\ settings = DefaultSettings
    /\ req = [r \in 1..NumCalls |-> CreateCall(SessionMacs[((r - 1) % Len(SessionMacs)) + 1])]

NextSession == ElapseTtl \/ \E r \in Reqs : CrGet(r) \/ CrRow(r) \/ CrInsert(r) \/ CrSetex(r)

SpecSession == InitSession /\ [][NextSession]_vars


\* the finished create_or_reuse_session calls that returned a handle
Created == { r \in Reqs : /\ req[r].kind = "create_session"
                          /\ req[r].pc = "done"
                          /\ req[r].result = "OK" }

\* C11: session re-entry is idempotent.  Two create_or_reuse_session calls for the
\* same site whose device addresses differ only in formatting return the same
\* portal_session_id, exactly one durable row exists for the pair afterwards, and
\* one of the two calls (the second) has written neither a row nor a cache entry.
C11_ReentryIdempotent ==
    \A r1, r2 \in Created :
        (r1 # r2 /\ req[r1].site = req[r2].site /\ req[r1].nmac = req[r2].nmac) =>
            /\ The(req[r1].ps).portal_session_id = The(req[r2].ps).portal_session_id
            /\ Cardinality(SessionRows(req[r1].site, req[r1].nmac)) = 1
            /\ (req[r1].wrote = {} \/ req[r2].wrote = {})

\* the durable rows of (site, address) that no cleanup has marked EXPIRED
ActiveRows(site, mac) == { i \in SessionRows(site, mac) : sessions[i].status # "EXPIRED" }

\* C12: in every reachable state there is at most one active durable PortalSession
\* row per (site, normalised device address), whatever create_or_reuse_session
\* calls have run, concurrently or after the cache entry's 30 minutes.
C12_OneActiveRowPerPair ==
    \A i \in DOMAIN sessions :
        Cardinality(ActiveRows(sessions[i].site_id, sessions[i].client_mac)) <= 1


(***************************************************************************)
(* SpecFlow: one guest of session 1 submits the voucher form NumReqs times *)
(* with the code in lower case, each submission after the answer to the    *)
(* one before; the voucher's batch allows a single use.                    *)
(***************************************************************************)
\* _continue_url: the session's original URL, else the site's success URL, else BASE_URL
\* the truth value Python gives an optional string: None and "" are false
Truthy(o) == IsSome(o) /\ The(o) # ""

continue_url(orig_url, success_url) ==
    IF Truthy(orig_url) THEN The(orig_url)
    ELSE IF Truthy(success_url) THEN The(success_url)
    ELSE "BASE_URL"

\* the body of the answer to a finished voucher_auth request (lines 176-208)
VoucherResponse(q) ==
    IF q.result = "OK"
    THEN [ok |-> TRUE, code |-> "", continue_url |-> Some(continue_url(q.orig_url, q.success_url))]
    ELSE [ok |-> FALSE, code |-> q.result, continue_url |-> Absent]

\* the guest sends request r once every earlier request has been answered
Turn(r) == \A q \in Reqs : q < r => req[q].pc = "done"

InitFlow ==
    /\ InitPortal(1)
    /\ settings = DefaultSettings
    /\ req = Workload(<<VoucherA>>)

NextFlow ==
    \E r \in Reqs :
        /\ Turn(r)
        /\ \/ GuestLoad(r) \/ RlIncr(r) \/ RlExpire(r)
           \/ RvEnter(r) \/ RvBeginRaises(r) \/ RvSelect(r) \/ RvCheck(r)
           \/ AuthorizeUnifi(r) \/ SsGet(r) \/ SsSetex(r) \/ SsDb(r) \/ LogAuthEvent(r)

SpecFlow == InitFlow /\ [][NextFlow]_vars

\* the AuthEvent rows request r has written
EventsOf(r) == { e \in authEvents : e.id[1] = r }

\* request r got an answer from the handler, not the transaction error of line 30
Answered(r) == req[r].pc = "done" /\ req[r].result # "InvalidRequestError"

OidcNoState == [OidcCallbackB EXCEPT !.state = Absent]
OidcMalformed == [OidcCallbackB EXCEPT !.state = Some(StateMalformed)]
OidcUnknown == [OidcCallbackB EXCEPT !.state = Some(StateToken(1, "secret"))]
OidcMismatch == [OidcCallbackB EXCEPT !.state = Some(StateToken(2, "other"))]
OidcProviderError == [OidcCallbackB EXCEPT !.error = Some("access_denied")]
OidcErrorNoState == [OidcNoState EXCEPT !.error = Some("access_denied")]

OidcPatterns ==
    { <<OidcNoState, OidcCallbackB>>, <<OidcMalformed, OidcCallbackB>>,
      <<OidcUnknown, OidcCallbackB>>, <<OidcMismatch, OidcCallbackB>>,
      <<OidcProviderError, OidcCallbackB>>, <<OidcErrorNoState, OidcCallbackB>>,
      <<OtpVerifyRight, OidcCallbackB>> }

InitOidc ==
    /\ InitPortal(1)
    /\ settings = DefaultSettings
    /\ \E pattern \in OidcPatterns : req = Workload(pattern)

NextOidc ==
    \E r \in Reqs :
        \/ GuestLoad(r) \/ RlIncr(r) \/ RlExpire(r)
        \/ VcGet(r) \/ VcDeleteOk(r)
        \/ GiSelect(r) \/ GiInsert(r)
        \/ OcEnter(r) \/ OcState(r) \/ OcSetting(r) \/ OcExchange(r)
        \/ OiSelect(r) \/ OiWrite(r)
        \/ AuthorizeUnifi(r) \/ SsGet(r) \/ SsSetex(r) \/ SsDb(r) \/ LogAuthEvent(r)
        \/ OcClear(r)

SpecOidc == InitOidc /\ [][NextOidc]_vars


\* the method-specific proofs: the voucher redemption, the passcode check, the
\* token exchange
Proofs == {"redeem_voucher", "verify_code", "exchange_code_for_claims"}
ReachedProof(r) == req[r].ran \cap Proofs # {}

\* C14: every authentication attempt produces exactly one AuthEvent.  A
\* voucher-submit, OTP-verify or OIDC-callback request that has reached its
\* method-specific proof has, once it is answered, appended exactly one AuthEvent
\* (SUCCESS when it succeeded, FAIL otherwise), and at no time more than one.
C14_OneEventPerAttempt ==
    \A r \in Reqs :
        req[r].kind \in {"voucher_auth", "otp_verify", "oidc_callback"} =>
            /\ Cardinality(EventsOf(r)) <= 1
            /\ (req[r].pc = "done" /\ ReachedProof(r)) =>
                  \E e \in authEvents :
                      /\ EventsOf(r) = {e}
                      /\ e.result = IF req[r].result = "OK" THEN "SUCCESS" ELSE "FAIL"


\* the state token of the request is not the one the login of session 2 (the only
\* login started) has stored: absent, malformed, of a session without stored
\* state, or a different string
BadState(r) ==
    \/ ~IsSome(req[r].state)
    \/ ~IsSome(portal_session_from_state(The(req[r].state)))
    \/ The(req[r].state) # StateToken(2, "secret")

\* request r was turned away before the token exchange: no SUCCESS event, no token
\* exchange, no controller call, no write to a session or anything else
TurnedAway(r) ==
    /\ req[r].pc \in {"oc_enter", "oc_state", "done"}
    /\ \A e \in EventsOf(r) : e.result # "SUCCESS"
    /\ req[r].ran = {}
    /\ req[r].wrote = {}
    /\ \A u \in unifiLog : u.by # r

\* C15 as amended: an OIDC callback without a provider error parameter whose state
\* token is absent, malformed, names a session with no stored state or differs
\* from the stored string ends in the redirect with error=OIDC_STATE_INVALID,
\* creates no SUCCESS AuthEvent, makes no token exchange or controller call and
\* leaves the session status unchanged.
C15_InvalidStateRejected ==
    \A r \in Reqs :
        (req[r].kind = "oidc_callback" /\ BadState(r) /\ ~IsSome(req[r].error)) =>
            /\ TurnedAway(r)
            /\ req[r].pc = "done" => req[r].result = "OIDC_STATE_INVALID"

C15_Witness ==
    \E r1, r2 \in Reqs :
        /\ req[r1] = [OidcMismatch EXCEPT !.pc = "done", !.result = "OIDC_STATE_INVALID",
                                          !.psid = 2, !.txn = TRUE]
        /\ req[r2].pc = "done" /\ req[r2].result = "OK" /\ req[r2].kind = "oidc_callback"
        /\ sessions[2].status = "AUTHORIZED"

\* C15 as stated: every callback with such a state token, whatever else it
\* carries, ends with error=OIDC_STATE_INVALID and is turned away.
C15_AsStated ==
    \A r \in Reqs :
        (req[r].kind = "oidc_callback" /\ BadState(r)) =>
            /\ TurnedAway(r)
            /\ req[r].pc = "done" => req[r].result = "OIDC_STATE_INVALID"


\* the answers of oidc_callback that are not redirects to the portal: the
\* HTTPException payloads of lines 105-109, 228-242 and 254-257, and exceptions
\* no handler catches
RawErrors ==
    {"NOT_FOUND", "INVALID_SESSION", "OIDC_DISABLED", "IntegrityError",
     "MultipleResultsFound", "ValueError"}

\* C16: every failure path of the OIDC callback both writes a FAIL AuthEvent and
\* answers with a redirect to the portal that carries an error code, never with
\* a raw error payload.
C16_FailuresLoggedAndRedirected ==
    \A r \in Reqs :
        (req[r].kind = "oidc_callback" /\ req[r].pc = "done" /\ req[r].result # "OK") =>
            /\ \E e \in EventsOf(r) : e.result = "FAIL"
            /\ req[r].result \notin RawErrors


\* the controller step of request r has run and no authorize call of it succeeded
ControllerFailed(r) == "_authorize_unifi" \in req[r].ran /\ AuthorizedCalls(r) = {}

C18_AuthEventAppendOnly == [][authEvents \subseteq authEvents']_vars

C18_Witness ==
    \E e1, e2 \in authEvents :
        /\ e1.id # e2.id
        /\ e1.portal_session_id = e2.portal_session_id
        /\ e1.result = "SUCCESS" /\ e2.result = "FAIL"


\* the vouchers of the given site whose code is the trimmed, upper-cased input
Applicable(site, code) ==
    { v \in VoucherIds : /\ vouchers[v].code = Upper(Strip(code))
                         /\ batches[vouchers[v].batch_id].site_id = site }

\* C19: redeem_voucher returns the first applicable outcome of the reference
\* order: VOUCHER_NOT_FOUND if no voucher with the trimmed, upper-cased code
\* belongs to a batch of the given site; else VOUCHER_DISABLED if disabled; else
\* VOUCHER_EXPIRED if the batch expiry is at or before now; else
\* VOUCHER_EXHAUSTED if uses >= max_uses_per_code; else success.  uses is the
\* value the call read under its row lock.
C19_ReferenceOrder ==
    \A r \in Reqs :
        (req[r].kind = "redeem" /\ req[r].pc = "done") =>
            LET m == Applicable(req[r].site, req[r].code)
                res == req[r].result
            IN  /\ res \in {"VOUCHER_NOT_FOUND", "VOUCHER_DISABLED", "VOUCHER_EXPIRED",
                            "VOUCHER_EXHAUSTED", "OK"}
                /\ res = "VOUCHER_NOT_FOUND" <=> m = {}
                /\ m # {} =>
                      LET v == req[r].vrow
                          b == batches[vouchers[v].batch_id]
                          disabled == vouchers[v].disabled
                          expired == b.expires_at # Absent /\ The(b.expires_at) <= req[r].tnow
                          exhausted == req[r].vuses >= b.max_uses_per_code
                      IN  /\ v \in m
                          /\ res = "VOUCHER_DISABLED" <=> disabled
                          /\ res = "VOUCHER_EXPIRED" <=> (~disabled /\ expired)
                          /\ res = "VOUCHER_EXHAUSTED" <=> (~disabled /\ ~expired /\ exhausted)
                          /\ res = "OK" <=> (~disabled /\ ~expired /\ ~exhausted)

C19_Witness ==
    /\ AllDone
    /\ \E r \in Reqs : /\ req[r].result = "VOUCHER_DISABLED"
                       /\ batches["B1"].expires_at = Some(req[r].tnow)
                       /\ req[r].vuses >= batches["B1"].max_uses_per_code
    /\ \E r \in Reqs : /\ req[r].result = "VOUCHER_NOT_FOUND"
                       /\ req[r].site = "S1" /\ req[r].code = CodeOther
                       /\ vouchers["V2"].code = CodeOther


(***************************************************************************)
(* SpecMac: normalize_mac applied to one address, and to its own result.   *)
(* The addresses are hex strings of 11 to 13 digits in three casings with   *)
(* a separator put after every 1..MaxGroup digits, and the empty string.    *)
(***************************************************************************)
MaxGroup == 4

HexBase == <<"a", "A", "b", "0", "C", "9", "d", "E", "f", "F", "1", "7", "B">>
HexStrings ==
    UNION { {SubSeq(HexBase, 1, n), Lower(SubSeq(HexBase, 1, n)), Upper(SubSeq(HexBase, 1, n))} :
            n \in (MacHexLen - 1)..(MacHexLen + 1) }
Separators == {":", "-", ".", " ", "g"}

\* s with sep after every k-th character but the last
RECURSIVE Sprinkle(_, _, _)
Sprinkle(s, sep, k) ==
    IF Len(s) <= k THEN s
    ELSE SubSeq(s, 1, k) \o <<sep>> \o Sprinkle(SubSeq(s, k + 1, Len(s)), sep, k)

MacInputs ==
    {<<>>} \cup HexStrings
           \cup { Sprinkle(h, sep, k) : h \in HexStrings, sep \in Separators, k \in 1..MaxGroup }

NormalizeCall(raw) == [Blank EXCEPT !.kind = "normalize_mac", !.pc = "nm_call", !.mac = raw]

\* normalize_mac(raw_mac): the canonical form, or the ValueError
NmCall(r) ==
    /\ req[r].pc = "nm_call"
    /\ LET out == normalize_mac(req[r].mac)
       IN  req' = IF out = MacInvalid THEN Finish(r, "ValueError")
                  ELSE [req EXCEPT ![r].pc = "nm_again", ![r].nmac = out, ![r].result = "OK"]
    /\ UNCHANGED <<now, dbVars, redisVars, auxVars>>

\* normalize_mac applied to the address it returned
NmAgain(r) ==
    /\ req[r].pc = "nm_again"
    /\ LET out == normalize_mac(req[r].nmac)
       IN  req' = IF out = MacInvalid THEN Finish(r, "ValueError")
                  ELSE [req EXCEPT ![r].pc = "done", ![r].again = out]
    /\ UNCHANGED <<now, dbVars, redisVars, auxVars>>

InitMac ==
    /\ InitLedgerFresh
    /\ InitRest
    /\ now = 1
    /\ settings = DefaultSettings
    /\ \E raw \in MacInputs : req = <<NormalizeCall(raw)>>

NextMac == \E r \in Reqs : NmCall(r) \/ NmAgain(r)

SpecMac == InitMac /\ [][NextMac]_vars

\* the hex digits of an address in their order, and the upper-case letter of a digit
IsHexDigit(c) ==
    c \in {"0", "1", "2", "3", "4", "5", "6", "7", "8", "9",
           "a", "b", "c", "d", "e", "f", "A", "B", "C", "D", "E", "F"}
HexDigitsOf(raw) == SelectSeq(raw, IsHexDigit)
Capital(c) ==
    CASE c = "a" -> "A" [] c = "b" -> "B" [] c = "c" -> "C"
      [] c = "d" -> "D" [] c = "e" -> "E" [] c = "f" -> "F" [] OTHER -> c
\* XX:XX:XX:XX:XX:XX of twelve digits
ColonForm(h) ==
    << Capital(h[1]), Capital(h[2]), ":", Capital(h[3]), Capital(h[4]), ":",
       Capital(h[5]), Capital(h[6]), ":", Capital(h[7]), Capital(h[8]), ":",
       Capital(h[9]), Capital(h[10]), ":", Capital(h[11]), Capital(h[12]) >>

\* C20: normalize_mac is separator- and case-insensitive and idempotent.  An input
\* with exactly 12 hex digits once all other characters are removed maps to the
\* upper-case colon-separated form of those digits, normalising the result again
\* gives the same result, and every other input (the empty one included) fails.
C20_NormalizeMac ==
    \A r \in Reqs :
        (req[r].kind = "normalize_mac" /\ req[r].pc # "nm_call") =>
            LET h == HexDigitsOf(req[r].mac)
            IN  IF Len(h) = 12
                THEN /\ req[r].result = "OK"
                     /\ req[r].nmac = ColonForm(h)
                     /\ req[r].pc = "done" => req[r].again = req[r].nmac
                ELSE req[r].pc = "done" /\ req[r].result = "ValueError"

C20_Witness ==
    \E r \in Reqs :
        /\ req[r].kind = "normalize_mac" /\ req[r].pc = "done" /\ req[r].result = "OK"
        /\ req[r].mac = Sprinkle(SubSeq(HexBase, 1, 12), "-", 2)
        /\ req[r].nmac = Sprinkle(Upper(SubSeq(HexBase, 1, 12)), ":", 2)
        /\ req[r].again = req[r].nmac


(***************************************************************************)
(* SpecLocate: one find_client_by_mac(mac, attempts, backoff_s) call, the  *)
(* loop taken one locate call or one sleep at a time.  The controller's    *)
(* answers to the successive locate calls are drawn at the start; delays   *)
(* are in tenths of a second.                                              *)
(***************************************************************************)
BackoffTenths == 3

RespFoundTwo(mac) ==
    [transport_error |-> FALSE, status_code |-> 200,
     clients |-> << [id |-> Some(ControllerId(mac)), clientId |-> Absent],
                    [id |-> Some(ControllerId(MacBCanon)), clientId |-> Absent] >>]
LocateAnswers == {RespEmpty, RespFound(MacACanon), RespFoundTwo(MacACanon), RespHttpError}

RECURSIVE SeqsOf(_, _)
SeqsOf(S, n) ==
    IF n = 0 THEN {<<>>}
    ELSE {Append(q, x) : q \in SeqsOf(S, n - 1), x \in S}

LocateCall(script, attempts, backoff) ==
    [Blank EXCEPT !.kind = "find_client_by_mac", !.pc = "fc_loop", !.mac = MacACanon,
                  !.script = script, !.attempts = attempts, !.backoff = backoff,
                  !.attempt = 1]

\* line 79: for attempt in range(1, attempts + 1); line 94 when the range is used up
FcLoop(r) ==
    /\ req[r].pc = "fc_loop"
    /\ req' = IF req[r].attempt <= req[r].attempts
              THEN [req EXCEPT ![r].pc = "fc_call"]
              ELSE Finish(r, "None")
    /\ UNCHANGED <<now, dbVars, redisVars, auxVars>>

\* line 83: a sleep follows every attempt but the last
SleepsAfterEvery(attempt, attempts) == TRUE
SleepsAfter(attempt, attempts) == attempt < attempts

\* line 84: delay = backoff_s * attempt
Delay(backoff, attempt) == backoff * attempt

\* lines 80-83: the locate call of this attempt
FcCall(r) ==
    /\ req[r].pc = "fc_call"
    /\ LET resp == req[r].script[req[r].attempt]
           q == [req[r] EXCEPT !.located = @ + 1]
       IN  req' = [req EXCEPT ![r] =
                      IF RaisesUnifiApiError(resp)
                      THEN [q EXCEPT !.pc = "done", !.result = "UnifiApiError"]
                      ELSE IF resp.clients # <<>>
                      THEN [q EXCEPT !.pc = "done", !.result = "OK",
                                     !.found = Some(resp.clients[1])]
                      ELSE IF SleepsAfter(q.attempt, q.attempts)
                      THEN [q EXCEPT !.pc = "fc_sleep"]
                      ELSE [q EXCEPT !.pc = "fc_loop", !.attempt = @ + 1]]
    /\ UNCHANGED <<now, dbVars, redisVars, auxVars>>

\* lines 84-93: time.sleep(delay), then the next attempt
FcSleep(r) ==
    /\ req[r].pc = "fc_sleep"
    /\ req' = [req EXCEPT ![r].pc = "fc_loop",
                          ![r].slept = Append(@, Delay(req[r].backoff, req[r].attempt)),
                          ![r].attempt = @ + 1]
    /\ UNCHANGED <<now, dbVars, redisVars, auxVars>>

InitLocate ==
    /\ InitLedgerFresh
    /\ InitRest
    /\ now = 1
    /\ settings = DefaultSettings
    /\ \E attempts \in 0..UnifiAttempts, backoff \in {0, BackoffTenths} :
          \E script \in SeqsOf(LocateAnswers, attempts) :
              req = <<LocateCall(script, attempts, backoff)>>

NextLocate == \E r \in Reqs : FcLoop(r) \/ FcCall(r) \/ FcSleep(r)

SpecLocate == InitLocate /\ [][NextLocate]_vars

\* the positions of the answers that are an empty list before the first that is not
RECURSIVE EmptiesBefore(_)
EmptiesBefore(script) ==
    IF script = <<>> \/ Head(script) # RespEmpty THEN 0
    ELSE 1 + EmptiesBefore(Tail(script))

\* C21: find_client_by_mac makes at most `attempts` locate calls.  It returns the
\* first listed client of the first non-empty answer without a further call, has
\* slept attempt x base delay after each earlier attempt and nothing after the
\* last one, and returns None after `attempts` empty answers.
C21_BoundedLocate ==
    \A r \in Reqs :
        req[r].kind = "find_client_by_mac" =>
            LET q == req[r]
                e == EmptiesBefore(q.script)
            IN  /\ q.located <= q.attempts
                /\ Len(q.slept) <= q.located
                /\ \A i \in 1..Len(q.slept) : q.slept[i] = q.backoff * i
                /\ q.pc = "done" =>
                      /\ q.result \in {"OK", "None", "UnifiApiError"}
                      /\ q.result = "None" <=> e = q.attempts
                      /\ q.result = "None" =>
                            /\ q.located = q.attempts
                            /\ Len(q.slept) = IF q.attempts = 0 THEN 0 ELSE q.attempts - 1
                            /\ q.found = Absent
                      /\ q.result = "OK" =>
                            /\ q.located = e + 1
                            /\ Len(q.slept) = e
                            /\ q.found = Some(q.script[e + 1].clients[1])
                      /\ LET f == find_client_by_mac(q.script, 1, q.attempts)
                         IN  /\ f.client = q.found
                             /\ f.err <=> q.result = "UnifiApiError"
                             /\ f.calls = q.located

C21_Witness ==
    \E r \in Reqs :
        /\ req[r].kind = "find_client_by_mac" /\ req[r].pc = "done"
        /\ req[r].attempts = UnifiAttempts /\ req[r].backoff = BackoffTenths
        /\ req[r].result = "None"
        /\ req[r].located = UnifiAttempts
        /\ req[r].slept = [i \in 1..(UnifiAttempts - 1) |-> BackoffTenths * i]


(***************************************************************************)
(* SpecAdapter: one _authorize_unifi call against a controller whose       *)
(* answers to the locate calls and to the authorize call are drawn at the  *)
(* start, among them answers that are neither 2xx nor >= 400.              *)
(***************************************************************************)
RespNoContent == [RespEmpty EXCEPT !.status_code = 204]
RespRedirect == [RespEmpty EXCEPT !.status_code = 302]
RespNotFound == [RespEmpty EXCEPT !.status_code = 404]

AdapterLocateAnswers == {RespEmpty, RespFound(MacACanon), RespHttpError, RespTransportError}
AdapterAuthorizeAnswers == AuthorizeResponses \cup {RespNoContent, RespRedirect, RespNotFound}

AdapterCall(script, postResp) ==
    [Blank EXCEPT !.kind = "_authorize_unifi", !.pc = "ad_call", !.mac = MacACanon,
                  !.script = script, !.post = Some(postResp), !.attempts = UnifiAttempts]

\* _authorize_unifi: find_client_by_mac, then authorize_guest for the id found
AdCall(r) ==
    /\ req[r].pc = "ad_call"
    /\ LET out == AuthorizeStep(req[r].kind, req[r].script, The(req[r].post))
       IN  /\ unifiLog' = IF IsSome(out.posted)
                          THEN unifiLog \cup {[ by |-> r, mac |-> req[r].mac,
                                               client_id |-> The(out.posted),
                                               response |-> The(req[r].post) ]}
                          ELSE unifiLog
           /\ req' = [req EXCEPT
                         ![r].pc = "done",
                         ![r].located = find_client_by_mac(req[r].script, 1, UnifiAttempts).calls,
                         ![r].status = StatusOf(out.authorized),
                         ![r].reason = out.reason,
                         ![r].unifiId = out.client_id,
                         ![r].result = IF out.authorized THEN "OK" ELSE "UNIFI_ERROR"]
    /\ UNCHANGED <<now, dbVars, redisVars, settings, hist>>

InitAdapter ==
    /\ InitLedgerFresh
    /\ InitRest
    /\ now = 1
    /\ settings = DefaultSettings
    /\ \E script \in SeqsOf(AdapterLocateAnswers, UnifiAttempts),
          postResp \in AdapterAuthorizeAnswers :
          req = <<AdapterCall(script, postResp)>>

NextAdapter == \E r \in Reqs : AdCall(r)

SpecAdapter == InitAdapter /\ [][NextAdapter]_vars

\* a transport failure or a response outside 200..299
Failure(resp) == resp.transport_error \/ resp.status_code < 200 \/ resp.status_code > 299

\* the position of the first locate answer that is a failure or lists a client
RECURSIVE FirstDecisive(_, _)
FirstDecisive(script, k) ==
    IF k > Len(script) THEN 0
    ELSE IF Failure(script[k]) \/ script[k].clients # <<>> THEN k
    ELSE FirstDecisive(script, k + 1)

\* C22: a transport failure or non-2xx answer of a controller call makes the
\* request fail with UNIFI_ERROR and without a retry: a failed locate attempt is
\* the last locate call and no authorize call follows, and a failed authorize
\* call never leaves the request authorized.
C22_ControllerErrorsFail ==
    \A r \in Reqs :
        (req[r].kind = "_authorize_unifi" /\ req[r].pc = "done") =>
            LET k == FirstDecisive(req[r].script, 1)
                posts == {u \in unifiLog : u.by = r}
            IN  /\ (k # 0 /\ Failure(req[r].script[k])) =>
                      /\ req[r].located = k
                      /\ posts = {}
                      /\ req[r].status = "FAILED"
                      /\ req[r].reason = Some("UNIFI_ERROR")
                /\ \A u \in posts :
                      Failure(u.response) =>
                          /\ req[r].status = "FAILED"
                          /\ req[r].reason = Some("UNIFI_ERROR")
                /\ Cardinality(posts) <= 1


(***************************************************************************)
(* SpecStatus: NumCalls calls of the portal-session service at a site with *)
(* one row per device and a cache entry for one of them: set_status calls  *)
(* (no two of them for one device at the same time) and                    *)
(* create_or_reuse_session calls, before or after the cache's 30 minutes.  *)
(* SpecStatusConc: the same calls with set_status calls overlapping.       *)
(***************************************************************************)
SetStatusCall(site, mac, status) ==
    [Blank EXCEPT !.kind = "set_status", !.pc = "ss_get", !.site = site, !.mac = mac,
                  !.status = status]

StatusInputs ==
    << SetStatusCall("S1", MacA, "AUTHORIZED"), SetStatusCall("S1", MacACanon, "FAILED"),
       SetStatusCall("S1", MacB, "AUTHORIZED"), SetStatusCall("S2", MacA, "FAILED"),
       SetStatusCall("S1", MacBad, "FAILED"), CreateCall(MacA) >>

\* a set_status call between its cache read and its return
InSetStatus(q) == q.kind = "set_status" /\ q.pc \in {"ss_setex", "ss_db"}

\* no other set_status call for the device of call r is in flight
Alone(r) ==
    \A q \in Reqs \ {r} :
        ~(InSetStatus(req[q]) /\ req[q].site = req[r].site
                              /\ req[q].nmac = normalize_mac(req[r].mac))

InitStatus ==
    /\ InitPortal(1)
    /\ settings = DefaultSettings
    /\ \E f \in InputChoices(NumCalls, Len(StatusInputs)) :
          req = [r \in 1..NumCalls |-> StatusInputs[f[r]]]

NextStatus ==
    \/ ElapseTtl
    \/ \E r \in Reqs : \/ Alone(r) /\ SsGet(r)
                       \/ SsSetex(r) \/ SsDb(r)
                       \/ CrGet(r) \/ CrRow(r) \/ CrInsert(r) \/ CrSetex(r)

SpecStatus == InitStatus /\ [][NextStatus]_vars

NextStatusConc ==
    \/ ElapseTtl
    \/ \E r \in Reqs : \/ SsGet(r) \/ SsSetex(r) \/ SsDb(r)
                       \/ CrGet(r) \/ CrRow(r) \/ CrInsert(r) \/ CrSetex(r)

SpecStatusConc == InitStatus /\ [][NextStatusConc]_vars

\* the step in which set_status call r returns
Returns(r) ==
    /\ req[r].kind = "set_status" /\ req[r].pc = "ss_db"
    /\ req'[r].pc = "done" /\ req'[r].result = ""

\* C23: when a set_status(site, device, status) call returns and no other
\* set_status for the pair was in flight during it, the durable row of the pair
\* has the given status; the cache entry the call found, unless it has expired
\* since, has that status and is otherwise as found; a call that found no cache
\* entry leaves the cache as it is.
C23_SetStatusWritesBoth ==
    [][\A r \in Reqs :
          LET k == portal_session_key(req[r].site, req[r].nmac)
          IN  /\ Returns(r) =>
                    /\ \A i \in SessionRows(req[r].site, req[r].nmac) :
                          sessions'[i].status = req[r].status
                    /\ (IsSome(req[r].cached) /\ RLive(psCache', k)) =>
                          RGet(psCache', k) =
                              Some([The(req[r].cached) EXCEPT !.status = req[r].status])
              /\ (InSetStatus(req[r]) /\ req'[r] # req[r] /\ ~IsSome(req[r].cached)) =>
                    psCache' = psCache
      ]_vars

C23_Witness ==
    \E r, q \in Reqs :
        /\ req[r].kind = "set_status" /\ req[r].pc = "done" /\ req[r].result = ""
        /\ IsSome(req[r].cached) /\ req[r].status = "AUTHORIZED"
        /\ sessions[1].status = "AUTHORIZED"
        /\ RGet(psCache, portal_session_key("S1", MacACanon)) =
               Some([CacheEntry(1, MacACanon) EXCEPT !.status = "AUTHORIZED"])
        /\ req[q].kind = "set_status" /\ req[q].pc = "done" /\ req[q].result = ""
        /\ ~IsSome(req[q].cached) /\ req[q].nmac = MacBCanon
        /\ sessions[2].status = "AUTHORIZED"
        /\ ~RLive(psCache, portal_session_key("S1", MacBCanon))


(***************************************************************************)
(* SpecContinue: a guest sends NumReqs requests of one method in turn; the *)
(* session's orig_url and the site's success_url are each missing, empty   *)
(* or set.                                                                  *)
(***************************************************************************)
UrlOrig == "http://neverssl.com/"
UrlSuccess == "https://welcome.example/"

\* oidc.py _success_redirect: 302 to the portal page of the site
success_redirect(site, psid) == <<"BASE_URL", "/guest/s/", site, "/?portal_session_id=", psid>>

\* what a request that succeeded answers: the JSON body of voucher_auth and
\* otp_verify (guest.py lines 208, 332), the redirect of oidc_callback (oidc.py line 206)
SuccessResponse(q) ==
    IF q.kind = "oidc_callback"
    THEN [status_code |-> 302, location |-> Some(success_redirect(q.site, The(q.ps).id)),
          continue_url |-> Absent]
    ELSE [status_code |-> 200, location |-> Absent,
          continue_url |-> Some(continue_url(q.orig_url, q.success_url))]

ContinueRequests ==
    { [q EXCEPT !.orig_url = o, !.success_url = s] :
          q \in {VoucherA, OtpVerifyRight, OidcCallbackB},
          o \in {Absent, Some(""), Some(UrlOrig)},
          s \in {Absent, Some(""), Some(UrlSuccess)} }

InitContinue ==
    /\ InitPortal(1)
    /\ settings = DefaultSettings
    /\ \E q \in ContinueRequests : req = Workload(<<q>>)

NextContinue ==
    \E r \in Reqs :
        Turn(r) /\ ( \/ GuestLoad(r) \/ RlIncr(r) \/ RlExpire(r)
                     \/ RvEnter(r) \/ RvBeginRaises(r) \/ RvSelect(r) \/ RvCheck(r)
                     \/ VcGet(r) \/ VcDeleteOk(r)
                     \/ GiSelect(r) \/ GiInsert(r)
                     \/ OcEnter(r) \/ OcState(r) \/ OcSetting(r) \/ OcExchange(r)
                     \/ OiSelect(r) \/ OiWrite(r) \/ OcClear(r)
                     \/ AuthorizeUnifi(r) \/ SsGet(r) \/ SsSetex(r) \/ SsDb(r)
                     \/ LogAuthEvent(r) )

SpecContinue == InitContinue /\ [][NextContinue]_vars

Succeeded(r) ==
    /\ req[r].kind \in {"voucher_auth", "otp_verify", "oidc_callback"}
    /\ req[r].pc = "done" /\ req[r].result = "OK"

\* C24: a request of any of the three methods that succeeded answers with the
\* continuation URL: the session's original URL if it has one, else the site's
\* success URL if it has one, else BASE_URL.
C24_ContinuationUrl ==
    \A r \in Reqs :
        Succeeded(r) =>
            SuccessResponse(req[r]).continue_url =
                Some(IF req[r].orig_url \notin {Absent, Some("")} THEN The(req[r].orig_url)
                     ELSE IF req[r].success_url \notin {Absent, Some("")}
                          THEN The(req[r].success_url)
                     ELSE "BASE_URL")


(***************************************************************************)
(* SpecLifecycle: a guest sends NumReqs requests in turn for one session   *)
(* while a create_or_reuse_session call for the same or another device     *)
(* runs beside them, before or after the cache's 30 minutes.               *)
(***************************************************************************)
LifecyclePatterns ==
    { <<VoucherA, OtpVerifyRight>>, <<OtpVerifyRight, VoucherA>>, <<OidcCallbackB>> }

InitLifecycle ==
    /\ InitPortal(1)
    /\ settings = DefaultSettings
    /\ \E pattern \in LifecyclePatterns, mac \in {MacA, MacB} :
          req = Workload(pattern) \o <<CreateCall(mac)>>

NextLifecycle ==
    \/ ElapseTtl
    \/ \E r \in Reqs :
          \/ Turn(r) /\ ( \/ GuestLoad(r) \/ RlIncr(r) \/ RlExpire(r)
                          \/ RvEnter(r) \/ RvBeginRaises(r) \/ RvSelect(r) \/ RvCheck(r)
                          \/ VcGet(r) \/ VcDeleteOk(r)
                          \/ GiSelect(r) \/ GiInsert(r)
                          \/ OcEnter(r) \/ OcState(r) \/ OcSetting(r) \/ OcExchange(r)
                          \/ OiSelect(r) \/ OiWrite(r) \/ OcClear(r)
                          \/ AuthorizeUnifi(r) \/ SsGet(r) \/ SsSetex(r) \/ SsDb(r)
                          \/ LogAuthEvent(r) )
          \/ CrGet(r) \/ CrRow(r) \/ CrInsert(r) \/ CrSetex(r)

SpecLifecycle == InitLifecycle /\ [][NextLifecycle]_vars

\* the step in which create_or_reuse_session call r inserts its row / caches its handle
Inserts(r) == req[r].kind = "create_session" /\ req[r].pc = "cr_insert" /\ req'[r].pc = "cr_setex"
Caches(r) == req[r].kind = "create_session" /\ req[r].pc = "cr_setex" /\ req'[r].pc = "done"

C27_CacheAndRowAgree ==
    (\A r \in Reqs : req[r].kind = "set_status" => req[r].pc = "done") =>
        \A k \in DOMAIN psCache :
            LET entry == psCache[k].val
                i == entry.portal_session_id
            IN  ( /\ i \in DOMAIN sessions
                  /\ k = portal_session_key(sessions[i].site_id, sessions[i].client_mac)
                  /\ SessionRows(sessions[i].site_id, sessions[i].client_mac) = {i} ) =>
                    entry.status = sessions[i].status


\* C28: a request whose proof held and whose controller authorization succeeded is
\* not aborted by the status update and has set the durable row of its session to
\* AUTHORIZED, also when the device has several PortalSession rows at the site.
C28_SuccessReachesOwnRow ==
    \A r \in Reqs :
        ( /\ req[r].kind \in HandlerKinds /\ req[r].pc = "done"
          /\ AuthorizedCalls(r) # {} ) =>
            /\ req[r].result = "OK"
            /\ <<"ps_row", "AUTHORIZED", req[r].nmac>> \in req[r].wrote
            /\ \E e \in EventsOf(r) :
                  e.result = "SUCCESS" /\ e.portal_session_id = The(req[r].ps).id


(***************************************************************************)
(* SpecProbe: the requests of SpecGate, and requests that name a malformed *)
(* session id or the id of no session.                                     *)
(***************************************************************************)
ProbeRequests ==
    { [q EXCEPT !.psid = p] : q \in {VoucherA, OtpStartA, OtpVerifyRight},
                              p \in {PsidMalformed, PsidUnknown} }

InitProbe ==
    /\ InitPortal(1)
    /\ \/ \E sc \in GateScenarios : settings = sc[1] /\ req = Workload(sc[2])
       \/ \E q \in ProbeRequests : settings = DefaultSettings /\ req = Workload(<<q>>)

SpecProbe == InitProbe /\ [][NextGate]_vars

\* C29: every voucher, OTP-start and OTP-verify request that has been answered,
\* one naming a malformed or unknown session id included, has incremented the
\* IP-scoped counter of its route.
C29_LimiterBeforeSessionLoad ==
    \A r \in Reqs :
        (req[r].kind \in {"voucher_auth", "otp_start", "otp_verify"} /\ req[r].pc = "done") =>
            \E s \in req[r].seen : s[1] = "ip"


RedemptionsOf(v) == { d \in redemptions : d.voucher_id = v }

LedgerBalanced ==
    \A v \in VoucherIds : Cardinality(RedemptionsOf(v)) = vouchers[v].uses - initUses[v]

VoucherErrors ==
    {"VOUCHER_NOT_FOUND", "VOUCHER_DISABLED", "VOUCHER_EXPIRED", "VOUCHER_EXHAUSTED"}

\* request r's redeem_voucher returns / raises in this step
Redeems(r) == req[r].pc = "rv_check" /\ req'[r].pc # "rv_check" /\ req'[r].result = "OK"
RedeemFails(r) ==
    /\ req[r].pc \in {"rv_select", "rv_check"}
    /\ req'[r].pc = "done"
    /\ req'[r].result \in VoucherErrors

\* C31: in every reachable state the number of VoucherRedemption rows of each
\* voucher equals its uses minus its initial uses; a successful redeem_voucher adds
\* exactly one to both in one step (one transaction), a redeem_voucher that fails
\* with a VoucherError changes neither, and nothing else changes either.
C31_RedemptionsMatchUses ==
    [][ /\ LedgerBalanced /\ LedgerBalanced'
        /\ \A r \in Reqs :
              /\ Redeems(r) =>
                    LET v == req[r].vrow
                    IN  /\ vouchers' = [vouchers EXCEPT ![v].uses = @ + 1]
                        /\ Cardinality(redemptions') = Cardinality(redemptions) + 1
                        /\ redemptions \subseteq redemptions'
                        /\ \A d \in redemptions' \ redemptions : d.voucher_id = v
              /\ RedeemFails(r) => UNCHANGED <<vouchers, redemptions>>
        /\ (\A r \in Reqs : ~Redeems(r)) => UNCHANGED <<vouchers, redemptions>>
      ]_vars

\* a voucher of two uses was redeemed twice and the third call was turned away
C31_Witness ==
    /\ Cardinality(RedemptionsOf("V1")) = 2
    /\ \E r \in Reqs : req[r].pc = "done" /\ req[r].result = "VOUCHER_EXHAUSTED"


(***************************************************************************)
(* SpecOtpRace: two clients that each start challenges and verify codes on *)
(* two keys at the same time.                                              *)
(***************************************************************************)
InitOtpRace ==
    /\ InitLedgerFresh
    /\ InitRest
    /\ now = 1
    /\ settings = DefaultSettings
    /\ req = [r \in 1..2 |->
                 OtpClient(CallsPerClient, {"start", "verify"}, {EmailA, EmailC})]

NextOtpRace == \E r \in Reqs : OtpCall(r) \/ StartChallenge(r) \/ VerifyCode(r)

SpecOtpRace == InitOtpRace /\ [][NextOtpRace]_vars

KeyOf(q) == otp_key(q.site, q.mac, q.email)

\* the challenge stored under each key is the one of the key's last start
StoredIsLastIssued ==
    \A k \in OtpKeySet :
        RLive(otpStore, k) =>
            /\ IsSome(hist.issued[k])
            /\ otpStore[k].val.code_hash = hash_code(The(hist.issued[k]))

\* C32: one challenge per (site, device, email) key.  A start_challenge on a key
\* replaces what is stored there by the new code's hash with attempt counter 0,
\* from then on the stored challenge is the one of the key's last start (so an
\* earlier code no longer verifies unless it equals the new one), and a start or
\* verify on another key leaves this key's challenge as it is.
C32_StartReplacesChallenge ==
    [][ /\ StoredIsLastIssued /\ StoredIsLastIssued'
        /\ \A r \in Reqs :
              LET k == KeyOf(req'[r])
              IN  /\ (req[r].pc = "sc_setex" /\ req'[r].pc # "sc_setex") =>
                        /\ k \in DOMAIN otpStore'
                        /\ otpStore'[k].val.code_hash = hash_code(req'[r].code)
                        /\ otpStore'[k].val.attempts = 0
                  /\ (req'[r] # req[r]) =>
                        \A x \in OtpKeySet \ {k} :
                            /\ (x \in DOMAIN otpStore') = (x \in DOMAIN otpStore)
                            /\ (x \in DOMAIN otpStore) => otpStore'[x] = otpStore[x]
      ]_vars


(***************************************************************************)
(* SpecOtpTtl: one client issuing start_challenge and verify_code calls in *)
(* turn while the clock runs; the challenge TTL is shorter than the span   *)
(* of the clock.                                                           *)
(***************************************************************************)
InitOtpTtl ==
    /\ InitLedgerFresh
    /\ InitRest
    /\ now = 1
    /\ settings = [DefaultSettings EXCEPT !.OTP_TTL_SECONDS = MaxTime - 1]
    /\ req = [r \in {1} |->
                 OtpClient(CallsPerClient + 1, {"start", "verify"}, {EmailA, EmailC})]

NextOtpTtl == Tick \/ \E r \in Reqs : OtpCall(r) \/ StartChallenge(r) \/ VerifyCode(r)

SpecOtpTtl == InitOtpTtl /\ [][NextOtpTtl]_vars

\* C33: a challenge can be verified for at most OTP_TTL_SECONDS after the
\* start_challenge that issued it (created_at): a mismatching verify_code does not
\* extend its lifetime.
C33_LifetimeNotExtended ==
    \A k \in OtpKeySet :
        RLive(otpStore, k) =>
            /\ now < otpStore[k].val.created_at + settings.OTP_TTL_SECONDS
            /\ otpStore[k].exp <= otpStore[k].val.created_at + settings.OTP_TTL_SECONDS


(***************************************************************************)
(* SpecCallback: one OIDC callback for the login started on session 2, at  *)
(* a site whose OIDC setting an administrator may have changed since the   *)
(* start, with every answer the provider may give.                         *)
(***************************************************************************)
ProviderB == "idp-b"
EmailUpper == <<"c", "@", "B">>

\* site_oidc_settings rows update_site_oidc may have left for the site
CallbackSettings ==
    { [enabled |-> en, provider_id |-> p, allowed_domains |-> d] :
         en \in BOOLEAN, p \in {ProviderA, ProviderB},
         d \in { <<>>, << <<" ", "B">> >>, << <<>>, <<"x">>, <<"B", " ">> >> } }

CallbackOutcomes ==
    ExchangeOutcomes \cup
    { [err |-> Some("OIDC_ID_TOKEN_INVALID"), claims |-> Absent],
      [err |-> Absent, claims |-> Some([sub |-> Absent, email |-> Some(EmailOut)])],
      [err |-> Absent, claims |-> Some([sub |-> Some(SubjectA), email |-> Absent])],
      [err |-> Absent, claims |-> Some([sub |-> Some(SubjectA), email |-> Some(EmailUpper)])] }

CallbackRequests ==
    { [q EXCEPT !.idp = CallbackOutcomes] :
         q \in {OidcCallbackB, OidcNoState, OidcMalformed, OidcUnknown, OidcMismatch} }

InitCallback ==
    /\ \E setting \in CallbackSettings : InitSite(1, setting)
    /\ settings = DefaultSettings
    /\ \E q \in CallbackRequests : req = <<q>>

NextCallback ==
    \E r \in Reqs :
        \/ OcEnter(r) \/ OcState(r) \/ OcSetting(r) \/ OcExchange(r)
        \/ OiSelect(r) \/ OiWrite(r)
        \/ AuthorizeUnifi(r) \/ SsGet(r) \/ SsSetex(r) \/ SsDb(r) \/ LogAuthEvent(r)
        \/ OcClear(r)

SpecCallback == InitCallback /\ [][NextCallback]_vars

\* the checks of the callback, each taken by itself on what the request carries,
\* what the site has configured and what the provider answered
SiteSetting(r) == The(oidcSettings[req[r].site])
ProviderChanged(r) == SiteSetting(r).provider_id # StoredState.provider_id
Exchanged(r) == "exchange_code_for_claims" \in req[r].ran
SubMissing(r) == IsSome(req[r].claims) /\ ~IsSome(The(req[r].claims).sub)
\* the site restricts the domains and the claimed e-mail is missing or its domain,
\* compared case-insensitively, is none of the entries
DomainDenied(r) ==
    LET entries == SiteSetting(r).allowed_domains
        listed == { i \in 1..Len(entries) : Strip(entries[i]) # <<>> }
        email == The(req[r].claims).email
    IN  /\ IsSome(req[r].claims)
        /\ listed # {}
        /\ \/ ~IsSome(email)
           \/ \A i \in listed : Lower(Strip(entries[i])) # Lower(AfterAt(The(email)))
Upserted(r) == \E w \in req[r].wrote : w[1] = "identity"
ControllerCalled(r) == "_authorize_unifi" \in req[r].ran

InitReplay ==
    /\ InitPortal(1)
    /\ settings = DefaultSettings
    /\ req = Workload(<<OidcCallbackB>>)

NextReplay ==
    \E r \in Reqs :
        \/ OcEnter(r) \/ OcState(r) \/ OcSetting(r) \/ OcExchange(r)
        \/ OiSelect(r) \/ OiWrite(r)
        \/ AuthorizeUnifi(r) \/ SsGet(r) \/ SsSetex(r) \/ SsDb(r) \/ LogAuthEvent(r)
        \/ OcClear(r)

SpecReplay == InitReplay /\ [][NextReplay]_vars

\* callback r has authorized its session and is answered
AuthorizedBy(r) ==
    /\ req[r].kind = "oidc_callback"
    /\ req[r].pc = "done"
    /\ req[r].result = "OK"

\* C35: a state token yields at most one authorization.  Once a callback has
\* authorized the session and cleared the stored state, every callback with the
\* same state token that completes after it fails with OIDC_STATE_INVALID and
\* adds no SUCCESS AuthEvent, so a session never has two OIDC SUCCESS events.
C35_StateTokenSingleUse ==
    [][ \A r1, r2 \in Reqs :
           ( /\ r1 # r2
             /\ AuthorizedBy(r1)
             /\ req[r2].kind = "oidc_callback" /\ req[r2].state = req[r1].state
             /\ req[r2].pc # "done" /\ req'[r2].pc = "done" ) =>
               /\ req'[r2].result = "OIDC_STATE_INVALID"
               /\ \A e \in authEvents' : e.id[1] = r2 => e.result # "SUCCESS"
      ]_vars


\* the site restricts the e-mail domains of its OIDC logins
Restricted(r) ==
    \E i \in 1..Len(SiteSetting(r).allowed_domains) :
        Strip(SiteSetting(r).allowed_domains[i]) # <<>>

IdentitiesUnique ==
    \A i, j \in DOMAIN identities :
        i # j =>
            /\ ~(IsSome(identities[i].email) /\ identities[i].email = identities[j].email)
            /\ ~(IsSome(identities[i].oidc_sub)
                 /\ identities[i].oidc_sub = identities[j].oidc_sub)

\* C37: GuestIdentity upserts keep both uniqueness rules without failing the
\* request: under any interleaving of OTP verifications and OIDC logins there is
\* at most one row per e-mail and per subject, no upsert ends the request with an
\* integrity error, and every request that upserted an identity ends with its
\* AuthEvent carrying that identity.
C37_IdentityUpsertsSucceed ==
    /\ IdentitiesUnique
    /\ \A r \in Reqs :
          /\ req[r].result # "IntegrityError"
          /\ (req[r].pc = "done" /\ IsSome(req[r].ident)) =>
                \E e \in EventsOf(r) : e.guest_identity_id = req[r].ident


(***************************************************************************)
(* SpecChokepoint: the _authorize_unifi of guest.py and the one of oidc.py *)
(* called for one device against the same controller behaviour.            *)
(***************************************************************************)
ChokepointScripts ==
    LocateScripts(MacACanon) \cup {Script(UnifiAttempts - 1, RespFoundAltId(MacACanon))}

InitChokepoint ==
    /\ InitLedgerFresh
    /\ InitRest
    /\ now = 1
    /\ settings = DefaultSettings
    /\ \E script \in ChokepointScripts, postResp \in AdapterAuthorizeAnswers :
          req = << AdapterCall(script, postResp),
                   [AdapterCall(script, postResp) EXCEPT !.kind = "oidc._authorize_unifi"] >>

NextChokepoint == \E r \in Reqs : AdCall(r)

SpecChokepoint == InitChokepoint /\ [][NextChokepoint]_vars

\* what a call of the step came to: the tuple it returned, the status the handler
\* passes to set_status and the answer, the locate calls and the authorize call made
StepOutcome(r) ==
    [ status |-> req[r].status, reason |-> req[r].reason, client_id |-> req[r].unifiId,
      result |-> req[r].result, located |-> req[r].located,
      posted |-> {[client_id |-> u.client_id, response |-> u.response] :
                     u \in {x \in unifiLog : x.by = r}} ]

\* C38: for every controller behaviour (device found or absent, client id present
\* or missing, authorize succeeds or errors) the authorization step the OIDC
\* callback uses and the one voucher and OTP-verify use return the same
\* (authorized, reason, client id) and lead to the same session status and result.
C38_SameAuthorizationStep ==
    \A r1, r2 \in Reqs :
        ( /\ req[r1].kind = "_authorize_unifi" /\ req[r2].kind = "oidc._authorize_unifi"
          /\ req[r1].pc = "done" /\ req[r2].pc = "done"
          /\ req[r1].script = req[r2].script /\ req[r1].post = req[r2].post ) =>
            StepOutcome(r1) = StepOutcome(r2)

\* both steps found the device under its alternative id key on the last attempt
\* and authorized it
C38_Witness ==
    /\ \A r \in Reqs : req[r].pc = "done" /\ req[r].status = "AUTHORIZED"
    /\ \E r1, r2 \in Reqs :
          /\ req[r1].kind = "_authorize_unifi" /\ req[r2].kind = "oidc._authorize_unifi"
          /\ req[r1].located = UnifiAttempts /\ req[r2].located = UnifiAttempts
          /\ req[r1].unifiId = Some(ControllerId(MacACanon))
          /\ req[r2].unifiId = req[r1].unifiId


(***************************************************************************)
(* A voucher use survives the controller's failure (guest.py 157-196):     *)
(* nothing in voucher_auth gives the use back.                             *)
(***************************************************************************)

\* request r redeemed its voucher and its controller step then failed
UseSpentThenFailed(r) ==
    /\ req[r].kind = "voucher_auth"
    /\ <<"voucher_use", "", <<>>>> \in req[r].wrote
    /\ ControllerFailed(r)

\* the VoucherRedemption rows request r inserted
RedemptionsBy(r) == { d \in redemptions : d.id = r }

\* C39: when the controller step fails after redeem_voucher succeeded in the same
\* voucher request, the VoucherRedemption row the request inserted and the
\* voucher's use count stay as redeem_voucher left them (no later step of the
\* request removes the row or lowers the count), the request's set_status leaves
\* FAILED in the session's durable row and, where there is one, in its cache
\* entry, and the request ends with UNIFI_ERROR and one FAIL AuthEvent.
C39_UseKeptOnControllerFailure ==
    [][ \A r \in Reqs :
          UseSpentThenFailed(r) =>
              /\ Cardinality(RedemptionsBy(r)) = 1
              /\ \A d \in RedemptionsBy(r) :
                    /\ d.voucher_id = req[r].vrow
                    /\ d.portal_session_id = req[r].psid
              /\ RedemptionsBy(r) \subseteq redemptions'
              /\ vouchers'[req[r].vrow].uses >= vouchers[req[r].vrow].uses
              /\ LedgerBalanced /\ LedgerBalanced'
              /\ vouchers[req[r].vrow].uses > initUses[req[r].vrow]
              /\ (req[r].pc = "ss_setex" /\ req'[r].pc # "ss_setex") =>
                    LET entry == RGet(psCache', portal_session_key(req[r].site,
                                                                   req[r].nmac))
                    IN  IsSome(entry) /\ The(entry).status = "FAILED"
              /\ (req[r].pc = "ss_db" /\ req'[r].pc # "ss_db") =>
                    sessions'[req[r].psid].status = "FAILED"
              /\ req'[r].pc = "done" =>
                    /\ req'[r].result = "UNIFI_ERROR"
                    /\ <<"ps_row", "FAILED", req[r].nmac>> \in req'[r].wrote
                    /\ Cardinality(EventsOf(r)') = 1
                    /\ \A e \in EventsOf(r)' : e.result = "FAIL" /\ e.reason = req[r].reason
      ]_vars

\* a voucher request spent a use, failed at the controller and is over: its
\* redemption row is there, the session is FAILED and the FAIL event is written
C39_Witness ==
    \E r \in Reqs :
        /\ UseSpentThenFailed(r) /\ req[r].pc = "done"
        /\ req[r].result = "UNIFI_ERROR"
        /\ RedemptionsBy(r) # {}
        /\ vouchers[req[r].vrow].uses > initUses[req[r].vrow]
        /\ sessions[req[r].psid].status = "FAILED"
        /\ \E e \in EventsOf(r) : e.result = "FAIL"


(***************************************************************************)
(* SpecOtpFail: otp_verify requests for the first device's session, with   *)
(* the wrong code or the right one, against a challenge that has one or    *)
(* two attempts left.                                                      *)
(***************************************************************************)
OtpFailPatterns ==
    { <<OtpVerifyWrong, OtpVerifyWrong>>, <<OtpVerifyWrong, OtpVerifyRight>> }

\* app.settings with one more attempt than the default
LenientSettings == [DefaultSettings EXCEPT !.OTP_MAX_ATTEMPTS = @ + 1]

InitOtpFail ==
    /\ InitPortal(1)
    /\ settings \in {DefaultSettings, LenientSettings}
    /\ \E pattern \in OtpFailPatterns : req = Workload(pattern)

NextOtpFail ==
    \E r \in Reqs :
        \/ GuestLoad(r) \/ RlIncr(r) \/ RlExpire(r)
        \/ VcGet(r) \/ VcDeleteLocked(r) \/ VcSetex(r) \/ VcDeleteOk(r)
        \/ GiSelect(r) \/ GiInsert(r)
        \/ AuthorizeUnifi(r) \/ SsGet(r) \/ SsSetex(r) \/ SsDb(r) \/ LogAuthEvent(r)

SpecOtpFail == InitOtpFail /\ [][NextOtpFail]_vars

OtpFailReasons == {Some("OTP_EXPIRED"), Some("OTP_INVALID"), Some("OTP_LOCKED")}

\* verify_code returns (False, reason) to request r in this step: every way out of
\* it but the DELETE of a matched challenge
VerifyFails(r) ==
    /\ req[r].kind = "otp_verify"
    /\ req[r].pc \in {"vc_get", "vc_del_locked", "vc_setex"}
    /\ req'[r].pc \notin {"vc_get", "vc_del_locked", "vc_setex", "vc_del_ok"}

\* request r, turned away by verify_code, takes its next step
LogsOtpFailure(r) ==
    /\ req[r].kind = "otp_verify"
    /\ req[r].pc = "ev_log" /\ req[r].reason \in OtpFailReasons
    /\ req'[r] # req[r]

\* C40: an OTP-verify request whose code check fails (OTP_EXPIRED, OTP_INVALID or
\* OTP_LOCKED) goes straight to the AuthEvent: it writes one FAIL event of method
\* EMAIL_OTP with that reason and no guest identity, answers OTP_INVALID, and
\* neither of its steps changes a session row, a session cache entry, the guest
\* identities or the controller; it has not run the controller step.
C40_OtpFailureLeavesSession ==
    [][ \A r \in Reqs :
          /\ VerifyFails(r) =>
                /\ req'[r].pc = "ev_log"
                /\ req'[r].result = "OTP_INVALID"
                /\ req'[r].reason \in OtpFailReasons
                /\ UNCHANGED <<sessions, psCache, identities, unifiLog, authEvents>>
          /\ LogsOtpFailure(r) =>
                /\ req'[r].pc = "done"
                /\ req'[r].result = "OTP_INVALID"
                /\ authEvents \subseteq authEvents'
                /\ Cardinality(authEvents' \ authEvents) = 1
                /\ \A e \in authEvents' \ authEvents :
                      /\ e.id[1] = r
                      /\ e.result = "FAIL" /\ e.reason = req[r].reason
                      /\ e.method = "EMAIL_OTP"
                      /\ e.portal_session_id = req[r].psid
                      /\ e.guest_identity_id = Absent
                /\ Cardinality(EventsOf(r)') = 1
                /\ UNCHANGED <<sessions, psCache, identities, unifiLog>>
                /\ req'[r].ran = {"verify_code"}
                /\ \A w \in req'[r].wrote : w[1] \in {"otp_challenge", "auth_event"}
                /\ \A u \in unifiLog : u.by # r
      ]_vars

\* two wrong codes were turned away, one as OTP_INVALID and one as OTP_LOCKED;
\* each left its FAIL event, and the session is as it was
C40_Witness ==
    \E r1, r2 \in Reqs :
        /\ req[r1].pc = "done" /\ req[r1].reason = Some("OTP_INVALID")
        /\ req[r2].pc = "done" /\ req[r2].reason = Some("OTP_LOCKED")
        /\ req[r1].result = "OTP_INVALID" /\ req[r2].result = "OTP_INVALID"
        /\ \E e \in EventsOf(r1) : e.result = "FAIL" /\ e.reason = Some("OTP_INVALID")
        /\ \E e \in EventsOf(r2) : e.result = "FAIL" /\ e.reason = Some("OTP_LOCKED")
        /\ sessions[1].status = "STARTED"
        /\ The(RGet(psCache, portal_session_key("S1", MacACanon))).status = "STARTED"
        /\ identities = <<>> /\ unifiLog = {}

=============================================================================
